---- MODULE Spec2Model ----
(***************************************************************************)
(* desktop-scout: discovery of .desktop files, resolution of their         *)
(* Exec/TryExec references and bounded concurrent inspection.              *)
(*                                                                         *)
(* Strings are sequences of one-character strings, so that the string      *)
(* operations of the source (contains, starts_with, split, join, trim)     *)
(* are computed and not assumed.                                           *)
(***************************************************************************)
EXTENDS Integers, Sequences, FiniteSets, TLC

(* ------------------------------ bounds --------------------------------- *)
\* longest token list handed to extract_executable_from_tokens
MaxTokens == 4
\* most paths of the resolver's filesystem that exist at once
MaxPresent == 2
\* longest file list and largest --jobs handed to inspect_files_concurrently
MaxFiles == 2
MaxJobs == 2
\* the same, where termination of the inspection is checked
MaxLiveFiles == 2
MaxLiveJobs == 2
\* most lines of a content handed to parse_desktop_entry_section
MaxLines == 4
\* most root directories handed to collect_desktop_files
MaxRoots == 2
\* the same, where termination of the walk is checked
MaxLiveRoots == 1
\* most CPUs the machine reports, where the concurrency limit is computed
MaxCpus == 8

VARIABLES
    \* extract_executable_from_tokens: argument, result, position
    e_tokens, e_result, e_pc,
    \* resolve_executable: arguments, the filesystem it queries, result, position
    r_token, r_path_env, r_path_key, r_fs, r_result, r_pc,
    \* collect_desktop_files: the roots, the index of the current root, the
    \* stack of pending directories, the open directory stream, the collected
    \* paths, the returned value, the position, and (history) the directories
    \* whose entries were listed
    w_dirs, w_root, w_stack, w_rd, w_out, w_result, w_pc, w_listed,
    \* inspect_files_concurrently: the input list, the arguments, the concurrency
    \* limit, the number of paths the stream has given out, the futures (one per
    \* element of the list), the permits left in the semaphore, the collected
    \* Findings, whether the stream is exhausted, whether collect has returned
    i_files, i_args, i_jobs, i_next, i_tasks, i_permits, i_out, i_stream_done, i_returned,
    \* validate_exec: the Exec line, the context, the filesystem, the position,
    \* the tokens, the extracted token, the resolved executable, the returned
    \* value, and (history) the calls it has made
    v_line, v_ctx, v_fs, v_pc, v_tokens, v_extracted, v_resolved, v_result, v_calls,
    \* inspect_one after the read: the content, the arguments, the position,
    \* the parsed map, the resolved TryExec, the returned Finding, and
    \* (history) the validations it has called
    d_content, d_args, d_pc, d_kv, d_tx, d_finding, d_calls,
    \* parse_desktop_entry_section: the lines, the index of the next line, the
    \* map, in_section, and (history) the lines that inserted a key
    pl_lines, pl_i, pl_map, pl_in_section, pl_pc, pl_used,
    \* the start of inspect_files_concurrently: the CPUs num_cpus::get reports,
    \* the arguments, jobs, the permits the semaphore is made with, the width
    \* buffer_unordered is given, the position
    j_cpus, j_args, j_jobs, j_permits, j_width, j_pc

extractVars == <<e_tokens, e_result, e_pc>>
resolveVars == <<r_token, r_path_env, r_path_key, r_fs, r_result, r_pc>>
walkVars == <<w_dirs, w_root, w_stack, w_rd, w_out, w_result, w_pc, w_listed>>
inspVars ==
    <<i_files, i_args, i_jobs, i_next, i_tasks, i_permits, i_out, i_stream_done, i_returned>>
valVars ==
    <<v_line, v_ctx, v_fs, v_pc, v_tokens, v_extracted, v_resolved, v_result, v_calls>>
descVars == <<d_content, d_args, d_pc, d_kv, d_tx, d_finding, d_calls>>
parseVars == <<pl_lines, pl_i, pl_map, pl_in_section, pl_pc, pl_used>>
limitVars == <<j_cpus, j_args, j_jobs, j_permits, j_width, j_pc>>
vars ==
    <<extractVars, resolveVars, walkVars, inspVars, valVars, descVars, parseVars,
      limitVars>>
\* what the steps of one function leave alone
extractOthers == <<resolveVars, walkVars, inspVars, valVars, descVars, parseVars, limitVars>>
resolveOthers == <<extractVars, walkVars, inspVars, valVars, descVars, parseVars, limitVars>>
walkOthers == <<extractVars, resolveVars, inspVars, valVars, descVars, parseVars, limitVars>>
inspOthers == <<extractVars, resolveVars, walkVars, valVars, descVars, parseVars, limitVars>>
valOthers == <<extractVars, resolveVars, walkVars, inspVars, descVars, parseVars, limitVars>>
descOthers == <<extractVars, resolveVars, walkVars, inspVars, valVars, parseVars, limitVars>>
parseOthers == <<extractVars, resolveVars, walkVars, inspVars, valVars, descVars, limitVars>>
limitOthers == <<extractVars, resolveVars, walkVars, inspVars, valVars, descVars, parseVars>>

(* ------------------------------ Option<T> ------------------------------ *)
None == [some |-> FALSE]
Some(x) == [some |-> TRUE, val |-> x]
IsSome(o) == o.some

(* ------------------------------ str helpers ---------------------------- *)
\* str::contains(char)
Contains(s, c) == \E i \in 1..Len(s) : s[i] = c
\* str::starts_with(char)
StartsWith(s, c) == Len(s) > 0 /\ s[1] = c

RECURSIVE SplitFrom(_, _, _, _)
\* str::split(sep): the pieces of s between occurrences of sep, empty pieces kept
SplitFrom(s, sep, i, cur) ==
    IF i > Len(s) THEN <<cur>>
    ELSE IF s[i] = sep THEN <<cur>> \o SplitFrom(s, sep, i + 1, <<>>)
    ELSE SplitFrom(s, sep, i + 1, Append(cur, s[i]))
Split(s, sep) == SplitFrom(s, sep, 1, <<>>)

(* ------------------------------ std::path ------------------------------ *)
\* Path::is_absolute (Unix): the path has a root
IsAbsolute(p) == StartsWith(p, "/")
\* Path::join: an absolute argument replaces the base; otherwise the argument
\* is appended, after a separator unless the base is empty or ends with one
PathJoin(base, p) ==
    IF IsAbsolute(p) THEN p
    ELSE IF Len(base) > 0 /\ base[Len(base)] # "/" THEN base \o <<"/">> \o p
    ELSE base \o p

(* ------------------------------ desktop.rs ----------------------------- *)
s_env == <<"e", "n", "v">>

RECURSIVE SkipEnvArgs(_, _)
\* the while loop of extract_executable_from_tokens: the first index >= i whose
\* token neither starts with '-' nor contains '='
SkipEnvArgs(tokens, i) ==
    IF i <= Len(tokens) /\ (StartsWith(tokens[i], "-") \/ Contains(tokens[i], "="))
    THEN SkipEnvArgs(tokens, i + 1)
    ELSE i

\* a faulty variant: assignments are not skipped
SkipEnvFlagsOnly(tokens) ==
    LET RECURSIVE Skip(_)
        Skip(i) == IF i <= Len(tokens) /\ StartsWith(tokens[i], "-")
                   THEN Skip(i + 1) ELSE i
    IN Skip(2)

\* index (1-based) of the token extract_executable_from_tokens returns when the
\* first token is "env"
EnvCommandIndex(tokens) == SkipEnvArgs(tokens, 2)

ExtractExecutableFromTokens(tokens) ==
    IF Len(tokens) = 0 THEN None
    ELSE LET i == IF tokens[1] = s_env THEN EnvCommandIndex(tokens) ELSE 1
         IN  IF i <= Len(tokens) THEN Some(tokens[i]) ELSE None

(* ------------------------------ check.rs ------------------------------- *)
\* the permission bits is_executable_file masks with
ExecBitsMask == 73      \* 0o111

RECURSIVE BitAnd(_, _)
BitAnd(a, b) ==
    IF a = 0 \/ b = 0 THEN 0
    ELSE (a % 2) * (b % 2) + 2 * BitAnd(a \div 2, b \div 2)

\* the outcomes of fs::metadata (symlinks followed): an error, or the file type
\* and the permission bits
MetaErr == [ok |-> FALSE]
MetaDir == [ok |-> TRUE, is_file |-> FALSE, mode |-> 493]           \* 0o755
MetaFile(mode) == [ok |-> TRUE, is_file |-> TRUE, mode |-> mode]
\* a path the filesystem does not hold gives an error
Metadata(fs, p) == IF p \in DOMAIN fs THEN fs[p] ELSE MetaErr

\* a faulty variant: only the owner's executable bit is looked at
IsExecutableOwnerOnly(fs, p) ==
    LET md == Metadata(fs, p)
    IN  md.ok /\ md.is_file /\ BitAnd(md.mode, 64) # 0

IsExecutableFile(fs, p) ==
    LET md == Metadata(fs, p)
    IN  IF ~md.ok THEN FALSE
        ELSE IF ~md.is_file THEN FALSE
        ELSE BitAnd(md.mode, ExecBitsMask) # 0

\* path_env.split(':').filter(|s| !s.is_empty())
PathEntries(path_env) == SelectSeq(Split(path_env, ":"), LAMBDA d : Len(d) > 0)

RECURSIVE WhichFrom(_, _, _, _)
WhichFrom(fs, cmd, dirs, i) ==
    IF i > Len(dirs) THEN None
    ELSE LET candidate == PathJoin(dirs[i], cmd)
         IN  IF IsExecutableFile(fs, candidate) THEN Some(candidate)
             ELSE WhichFrom(fs, cmd, dirs, i + 1)

\* a faulty variant: the search does not stop at the first match, the last one wins
WhichLastMatch(fs, cmd, path_env) ==
    LET dirs == PathEntries(path_env)
        hits == {i \in 1..Len(dirs) : IsExecutableFile(fs, PathJoin(dirs[i], cmd))}
    IN  IF hits = {} THEN None
        ELSE Some(PathJoin(dirs[CHOOSE i \in hits : \A j \in hits : j <= i], cmd))

WhichInPath(fs, cmd, path_env) == WhichFrom(fs, cmd, PathEntries(path_env), 1)

\* a faulty variant: a relative path without Path= falls back to the search path
ResolveRelativeFallsBack(fs, token, path_env, path_key) ==
    IF IsSome(path_key)
    THEN LET candidate == PathJoin(path_key.val, token)
         IN  IF IsExecutableFile(fs, candidate) THEN Some(candidate) ELSE None
    ELSE WhichInPath(fs, token, path_env)

\* resolve_executable, the branch of a relative token that contains '/'
ResolveRelative(fs, token, path_env, path_key) ==
    IF IsSome(path_key)
    THEN LET candidate == PathJoin(path_key.val, token)
         IN  IF IsExecutableFile(fs, candidate) THEN Some(candidate) ELSE None
    ELSE None

ResolveExecutable(fs, token, path_env, path_key) ==
    IF Contains(token, "/")
    THEN IF IsAbsolute(token)
         THEN IF IsExecutableFile(fs, token) THEN Some(token) ELSE None
         ELSE ResolveRelative(fs, token, path_env, path_key)
    ELSE WhichInPath(fs, token, path_env)


(* ------------------------------ more str helpers ----------------------- *)
\* ASCII whitespace that can occur inside a line
IsSpace(c) == c \in {" ", "\t"}
RECURSIVE TrimStart(_)
TrimStart(s) == IF Len(s) > 0 /\ IsSpace(s[1]) THEN TrimStart(Tail(s)) ELSE s
RECURSIVE TrimEnd(_)
TrimEnd(s) ==
    IF Len(s) > 0 /\ IsSpace(s[Len(s)]) THEN TrimEnd(SubSeq(s, 1, Len(s) - 1)) ELSE s
\* str::trim
Trim(s) == TrimEnd(TrimStart(s))
\* str::ends_with(char)
EndsWith(s, c) == Len(s) > 0 /\ s[Len(s)] = c

UpperCase == <<"A", "B", "C", "D", "E", "F", "G", "H", "I", "J", "K", "L", "M", "N", "O", "P", "Q", "R", "S", "T", "U", "V", "W", "X", "Y", "Z">>
LowerCase == <<"a", "b", "c", "d", "e", "f", "g", "h", "i", "j", "k", "l", "m", "n", "o", "p", "q", "r", "s", "t", "u", "v", "w", "x", "y", "z">>
\* char::to_ascii_lowercase
LowerChar(c) ==
    IF \E i \in 1..Len(UpperCase) : UpperCase[i] = c
    THEN LowerCase[CHOOSE i \in 1..Len(UpperCase) : UpperCase[i] = c]
    ELSE c
\* str::to_ascii_lowercase
ToAsciiLowercase(s) == [i \in 1..Len(s) |-> LowerChar(s[i])]

\* HashMap::get
Get(map, k) == IF k \in DOMAIN map THEN Some(map[k]) ELSE None
\* HashMap::insert
Insert(map, k, v) == [x \in DOMAIN map \cup {k} |-> IF x = k THEN v ELSE map[x]]
\* the map with no key
EmptyMap == [x \in {} |-> <<>>]

(* ------------------------------ desktop.rs: the parser ----------------- *)
s_section == <<"[", "D", "e", "s", "k", "t", "o", "p", " ", "E", "n", "t", "r", "y", "]">>

\* str::split_once('='): the text before and after the first '='
FirstEq(line) ==
    LET eqs == {i \in 1..Len(line) : line[i] = "="}
    IN  IF eqs = {} THEN 0 ELSE CHOOSE i \in eqs : \A j \in eqs : i <= j

\* one iteration of the loop of parse_desktop_entry_section over a raw line:
\* st is [map, in_section]
ParseLine(st, raw) ==
    LET line == Trim(raw)
    IN  IF Len(line) = 0 \/ StartsWith(line, "#") \/ StartsWith(line, ";") THEN st
        ELSE IF StartsWith(line, "[") /\ EndsWith(line, "]")
        THEN [st EXCEPT !.in_section = (line = s_section)]
        ELSE IF ~st.in_section THEN st
        ELSE IF FirstEq(line) = 0 THEN st
        ELSE [st EXCEPT !.map =
                 Insert(@, Trim(SubSeq(line, 1, FirstEq(line) - 1)),
                           Trim(SubSeq(line, FirstEq(line) + 1, Len(line))))]

RECURSIVE ParseLines(_, _, _)
ParseLines(st, lines, i) ==
    IF i > Len(lines) THEN st ELSE ParseLines(ParseLine(st, lines[i]), lines, i + 1)

\* parse_desktop_entry_section; content is given as its lines (content.lines())
ParseDesktopEntrySection(lines) ==
    ParseLines([map |-> EmptyMap, in_section |-> FALSE], lines, 1).map

s_true == <<"t", "r", "u", "e">>
s_one == <<"1">>
s_yes == <<"y", "e", "s">>
\* parse_bool
ParseBool(v) ==
    IF ~IsSome(v) THEN FALSE
    ELSE ToAsciiLowercase(Trim(v.val)) \in {s_true, s_one, s_yes}

(* ------------------------------ shlex::split --------------------------- *)
\* The word splitter of the shlex crate. A scan result is [ok, word, next]:
\* next is the index of the first character not consumed.
ShlexErr == [ok |-> FALSE, word |-> <<>>, next |-> 0]

RECURSIVE ShlexDouble(_, _, _)
\* inside double quotes, from index i; word is what the word holds so far
ShlexDouble(s, i, word) ==
    IF i > Len(s) THEN ShlexErr
    ELSE IF s[i] = "\"" THEN [ok |-> TRUE, word |-> word, next |-> i + 1]
    ELSE IF s[i] = "\\"
    THEN IF i + 1 > Len(s) THEN ShlexErr
         ELSE IF s[i + 1] \in {"$", "\"", "\\"}   \* and the backquote
              THEN ShlexDouble(s, i + 2, Append(word, s[i + 1]))
         ELSE IF s[i + 1] = "\n" THEN ShlexDouble(s, i + 2, word)
         ELSE ShlexDouble(s, i + 2, word \o <<"\\", s[i + 1]>>)
    ELSE ShlexDouble(s, i + 1, Append(word, s[i]))

RECURSIVE ShlexSingle(_, _, _)
\* inside single quotes, from index i
ShlexSingle(s, i, word) ==
    IF i > Len(s) THEN ShlexErr
    ELSE IF s[i] = "'" THEN [ok |-> TRUE, word |-> word, next |-> i + 1]
    ELSE ShlexSingle(s, i + 1, Append(word, s[i]))

RECURSIVE ShlexWord(_, _, _)
\* parse_word, the character at index i being the current one
ShlexWord(s, i, word) ==
    IF i > Len(s) THEN [ok |-> TRUE, word |-> word, next |-> i]
    ELSE IF s[i] = "\""
    THEN LET q == ShlexDouble(s, i + 1, word)
         IN  IF q.ok THEN ShlexWord(s, q.next, q.word) ELSE ShlexErr
    ELSE IF s[i] = "'"
    THEN LET q == ShlexSingle(s, i + 1, word)
         IN  IF q.ok THEN ShlexWord(s, q.next, q.word) ELSE ShlexErr
    ELSE IF s[i] = "\\"
    THEN IF i + 1 > Len(s) THEN ShlexErr
         ELSE IF s[i + 1] = "\n" THEN ShlexWord(s, i + 2, word)
         ELSE ShlexWord(s, i + 2, Append(word, s[i + 1]))
    ELSE IF s[i] \in {" ", "\t", "\n"} THEN [ok |-> TRUE, word |-> word, next |-> i + 1]
    ELSE ShlexWord(s, i + 1, Append(word, s[i]))

RECURSIVE ShlexSkip(_, _)
\* the index of the first character of the next word (whitespace and
\* #-comments skipped), 0 when the input is exhausted
ShlexSkip(s, i) ==
    IF i > Len(s) THEN 0
    ELSE IF s[i] \in {" ", "\t", "\n"} THEN ShlexSkip(s, i + 1)
    ELSE IF s[i] = "#"
    THEN LET ends == {j \in (i + 1)..Len(s) : s[j] = "\n"}
         IN  IF ends = {} THEN 0
             ELSE ShlexSkip(s, (CHOOSE j \in ends : \A k \in ends : j <= k) + 1)
    ELSE i

RECURSIVE ShlexWords(_, _, _)
ShlexWords(s, i, words) ==
    LET start == ShlexSkip(s, i)
    IN  IF start = 0 THEN Some(words)
        ELSE LET w == ShlexWord(s, start, <<>>)
             IN  IF w.ok THEN ShlexWords(s, w.next, Append(words, w.word)) ELSE None

\* shlex::split: None when a quote or an escape is left open
ShlexSplit(s) == ShlexWords(s, 1, <<>>)

(* ------------------------------ check.rs: validation ------------------- *)
\* a let binding of the code: e is evaluated once and F works on its value
Bind(e, F(_)) == CHOOSE r \in {F(v) : v \in {e}} : TRUE

\* Result<T>
Ok(x) == [ok |-> TRUE, val |-> x]
Err(e) == [ok |-> FALSE, err |-> e]

\* Path::file_name().and_then(to_str).unwrap_or(""): the last component, none
\* when the path ends in ..
FileNameOrEmpty(p) ==
    LET comps == SelectSeq(Split(p, "/"), LAMBDA c : Len(c) > 0 /\ c # <<".">>)
    IN  IF Len(comps) = 0 THEN <<>>
        ELSE IF comps[Len(comps)] = <<".", ".">> THEN <<>>
        ELSE comps[Len(comps)]

Interpreters == { <<"p", "y", "t", "h", "o", "n">>, <<"p", "y", "t", "h", "o", "n", "3">>, <<"n", "o", "d", "e">>, <<"b", "a", "s", "h">>, <<"s", "h">>, <<"r", "u", "b", "y">>, <<"p", "e", "r", "l">> }

RECURSIVE SkipOptionTokens(_, _)
\* the while loop of heuristic_script_missing: the first index >= i whose token
\* starts with neither '%' nor '-'
SkipOptionTokens(tokens, i) ==
    IF i <= Len(tokens) /\ (StartsWith(tokens[i], "%") \/ StartsWith(tokens[i], "-"))
    THEN SkipOptionTokens(tokens, i + 1)
    ELSE i

\* a faulty variant: the script argument has to pass the resolver's test, an
\* executable regular file
HeuristicRequiresExecutable(fs, resolved_exe, tokens, path_key) ==
    LET exe_name == ToAsciiLowercase(FileNameOrEmpty(resolved_exe))
        i == SkipOptionTokens(tokens, 2)
    IN  IF exe_name \notin Interpreters \/ Len(tokens) = 0 THEN None
        ELSE IF i > Len(tokens) THEN None
        ELSE IF ~Contains(tokens[i], "/") THEN None
        ELSE IF ~IsAbsolute(tokens[i]) /\ ~IsSome(path_key) THEN None
        ELSE LET candidate == IF IsAbsolute(tokens[i]) THEN tokens[i]
                              ELSE PathJoin(path_key.val, tokens[i])
             IN  IF ~IsExecutableFile(fs, candidate)
                 THEN Some([msg |-> "Interpreter exists, but script/path argument is missing",
                            interpreter |-> exe_name, path |-> candidate])
                 ELSE None

\* a faulty variant: the argument of any executable is examined, interpreter
\* or not
HeuristicAnyExecutable(fs, resolved_exe, tokens, path_key) ==
    LET exe_name == ToAsciiLowercase(FileNameOrEmpty(resolved_exe))
        i == SkipOptionTokens(tokens, 2)
    IN  IF Len(tokens) = 0 THEN None
        ELSE IF i > Len(tokens) THEN None
        ELSE IF ~Contains(tokens[i], "/") THEN None
        ELSE IF ~IsAbsolute(tokens[i]) /\ ~IsSome(path_key) THEN None
        ELSE LET candidate == IF IsAbsolute(tokens[i]) THEN tokens[i]
                              ELSE PathJoin(path_key.val, tokens[i])
             IN  IF ~Metadata(fs, candidate).ok
                 THEN Some([msg |-> "Interpreter exists, but script/path argument is missing",
                            interpreter |-> exe_name, path |-> candidate])
                 ELSE None

\* heuristic_script_missing: Some(problem) or None; the problem names the
\* interpreter and the candidate path
HeuristicScriptMissing(fs, resolved_exe, tokens, path_key) ==
    LET exe_name == ToAsciiLowercase(FileNameOrEmpty(resolved_exe))
        i == SkipOptionTokens(tokens, 2)
    IN  IF exe_name \notin Interpreters \/ Len(tokens) = 0 THEN None
        ELSE IF i > Len(tokens) THEN None
        ELSE IF ~Contains(tokens[i], "/") THEN None
        ELSE IF ~IsAbsolute(tokens[i]) /\ ~IsSome(path_key) THEN None
        ELSE LET candidate == IF IsAbsolute(tokens[i]) THEN tokens[i]
                              ELSE PathJoin(path_key.val, tokens[i])
             IN  IF ~Metadata(fs, candidate).ok
                 THEN Some([msg |-> "Interpreter exists, but script/path argument is missing",
                            interpreter |-> exe_name, path |-> candidate])
                 ELSE None

\* CheckContext
CheckContext(path_env, path_key, check_script_args) ==
    [path_env |-> path_env, path_key |-> path_key, check_script_args |-> check_script_args]

\* validate_tryexec
ValidateTryExec(fs, try_exec, ctx) ==
    Ok(ResolveExecutable(fs, try_exec, ctx.path_env, ctx.path_key))

\* validate_exec from line 59 on, for the tokens and the extracted token
ValidateExtracted(fs, tokens, extracted, ctx) ==
    Bind(ResolveExecutable(fs, extracted, ctx.path_env, ctx.path_key),
         LAMBDA resolved :
            LET reason == IF ctx.check_script_args /\ IsSome(resolved)
                          THEN HeuristicScriptMissing(fs, resolved.val, tokens, ctx.path_key)
                          ELSE None
            IN  IF IsSome(reason) THEN Err(reason.val) ELSE Ok(resolved))

\* validate_exec
ValidateExec(fs, exec_line, ctx) ==
    Bind(ShlexSplit(exec_line),
         LAMBDA split :
            IF ~IsSome(split) THEN Err([msg |-> "Failed to shell-split Exec"])
            ELSE Bind(ExtractExecutableFromTokens(split.val),
                      LAMBDA extracted :
                         IF ~IsSome(extracted)
                         THEN Err([msg |-> "Could not extract executable from Exec"])
                         ELSE IF StartsWith(extracted.val, "%") THEN Ok(None)
                         ELSE ValidateExtracted(fs, split.val, extracted.val, ctx)))

(* ------------------------------ scan.rs: inspect_one ------------------- *)
k_Name == <<"N", "a", "m", "e">>
k_Exec == <<"E", "x", "e", "c">>
k_TryExec == <<"T", "r", "y", "E", "x", "e", "c">>
k_Hidden == <<"H", "i", "d", "d", "e", "n">>
k_NoDisplay == <<"N", "o", "D", "i", "s", "p", "l", "a", "y">>
k_Type == <<"T", "y", "p", "e">>
k_DBusActivatable == <<"D", "B", "u", "s", "A", "c", "t", "i", "v", "a", "t", "a", "b", "l", "e">>
k_Path == <<"P", "a", "t", "h">>
s_Application == <<"A", "p", "p", "l", "i", "c", "a", "t", "i", "o", "n">>

\* Status
StatusOk(resolved_executable) == [kind |-> "ok", resolved_executable |-> resolved_executable]
StatusBroken(reason) == [kind |-> "broken", reason |-> reason]
StatusSkipped(reason) == [kind |-> "skipped", reason |-> reason]

\* Finding
Finding(desktop_file, name, exec, try_exec, path_key, hidden, no_display, status) ==
    [desktop_file |-> desktop_file, name |-> name, exec |-> exec, try_exec |-> try_exec,
     path_key |-> path_key, hidden |-> hidden, no_display |-> no_display, status |-> status]

\* a faulty variant: an Exec that resolves to nothing passes
ExecStatusUnresolvedOk(r) ==
    IF r.ok THEN StatusOk(r.val)
    ELSE StatusBroken([msg |-> "Exec check failed", cause |-> r.err])

\* lines 274-312: the status the check of Exec alone gives
ExecStatus(r) ==
    IF r.ok /\ IsSome(r.val) THEN StatusOk(Some(r.val.val))
    ELSE IF r.ok THEN StatusBroken([msg |-> "Exec does not resolve"])
    ELSE StatusBroken([msg |-> "Exec check failed", cause |-> r.err])

\* lines 206-248: the status the check of Exec gives once TryExec resolved
ExecStatusAfterTryExec(r) ==
    IF r.ok /\ IsSome(r.val) THEN StatusOk(Some(r.val.val))
    ELSE IF r.ok
    THEN StatusBroken([msg |-> "Exec does not resolve (even though TryExec does)"])
    ELSE StatusBroken([msg |-> "Exec check failed", cause |-> r.err])

\* inspect_one from line 184 on: the status that resolving TryExec and Exec gives
ResolutionStatus(fs, exec, try_exec, ctx) ==
    IF IsSome(try_exec)
    THEN Bind(ValidateTryExec(fs, try_exec.val, ctx).val,
              LAMBDA tx :
                 IF IsSome(tx)
                 THEN IF IsSome(exec)
                      THEN Bind(ValidateExec(fs, exec.val, ctx), ExecStatusAfterTryExec)
                      ELSE StatusOk(Some(tx.val))
                 ELSE StatusBroken([msg |-> "TryExec does not resolve",
                                    value |-> try_exec.val]))
    ELSE IF IsSome(exec)
    THEN Bind(ValidateExec(fs, exec.val, ctx), ExecStatus)
    ELSE StatusBroken([msg |-> "No Exec key found (and not DBusActivatable)"])

\* inspect_one from line 127 on: kv is the map parse_desktop_entry_section gave
InspectEntry(fs, path, kv, path_env, args) ==
    LET name == Get(kv, k_Name)
        exec == Get(kv, k_Exec)
        try_exec == Get(kv, k_TryExec)
        hidden == ParseBool(Get(kv, k_Hidden))
        no_display == ParseBool(Get(kv, k_NoDisplay))
        typ == IF k_Type \in DOMAIN kv THEN Some(Trim(kv[k_Type])) ELSE None
        dbus_activatable == ParseBool(Get(kv, k_DBusActivatable))
        path_key == Get(kv, k_Path)
        ctx == CheckContext(path_env, path_key, args.check_script_args)
        status ==
            IF ~args.include_hidden /\ (hidden \/ no_display)
            THEN StatusSkipped([msg |-> "Hidden=true or NoDisplay=true (use --include-hidden to scan these)"])
            ELSE IF IsSome(typ) /\ typ.val # s_Application
            THEN StatusSkipped([msg |-> "Type (only Type=Application is checked)", value |-> typ.val])
            ELSE IF dbus_activatable /\ ~IsSome(exec) THEN StatusOk(None)
            ELSE ResolutionStatus(fs, exec, try_exec, ctx)
    IN  Finding(path, name, exec, try_exec, path_key, hidden, no_display, status)

\* inspect_one after the file has been read: content is the text read, as
\* lines; line 125 parses it once and the rest works on the map
InspectContent(fs, path, content, path_env, args) ==
    Bind(ParseDesktopEntrySection(content),
         LAMBDA kv : InspectEntry(fs, path, kv, path_env, args))

\* the Finding inspect_files_concurrently makes of an Err of inspect_one
ReadErrorFinding(path, e) ==
    Finding(path, None, None, None, None, FALSE, FALSE,
            StatusBroken([msg |-> "Failed to read/parse file", cause |-> e]))

(* ------------------------------ scan.rs: the walker -------------------- *)
\* A path is the sequence of its components below "/", a component is a string.
\* Byte value of the characters that occur in names.
Byte(c) ==
    CASE c = "." -> 46 [] c = "a" -> 97 [] c = "b" -> 98 [] c = "c" -> 99
      [] c = "d" -> 100 [] c = "e" -> 101 [] c = "k" -> 107 [] c = "l" -> 108
      [] c = "m" -> 109 [] c = "o" -> 111 [] c = "p" -> 112 [] c = "q" -> 113
      [] c = "r" -> 114 [] c = "s" -> 115 [] c = "t" -> 116 [] c = "u" -> 117
      [] c = "x" -> 120

RECURSIVE StrLess(_, _)
\* OsStr ordering: byte-wise lexicographic
StrLess(a, b) ==
    IF Len(b) = 0 THEN FALSE
    ELSE IF Len(a) = 0 THEN TRUE
    ELSE IF a[1] = b[1] THEN StrLess(Tail(a), Tail(b))
    ELSE Byte(a[1]) < Byte(b[1])

RECURSIVE PathLess(_, _)
\* Ord for Path: component-wise lexicographic
PathLess(p, q) ==
    IF Len(q) = 0 THEN FALSE
    ELSE IF Len(p) = 0 THEN TRUE
    ELSE IF p[1] = q[1] THEN PathLess(Tail(p), Tail(q))
    ELSE StrLess(p[1], q[1])

\* Path::extension of a file name: the part after the last '.', unless the name
\* has no '.' or nothing stands before its last '.'
LastDot(name) ==
    LET dots == {i \in 1..Len(name) : name[i] = "."}
    IN  IF dots = {} THEN 0 ELSE CHOOSE i \in dots : \A j \in dots : j <= i
Extension(name) ==
    IF name = <<".", ".">> THEN None
    ELSE IF LastDot(name) <= 1 THEN None
    ELSE Some(SubSeq(name, LastDot(name) + 1, Len(name)))

s_desktop == <<"d", "e", "s", "k", "t", "o", "p">>

RECURSIVE InsertSorted(_, _)
InsertSorted(sorted, p) ==
    IF Len(sorted) = 0 THEN <<p>>
    ELSE IF PathLess(p, sorted[1]) THEN <<p>> \o sorted
    ELSE <<sorted[1]>> \o InsertSorted(Tail(sorted), p)
RECURSIVE SortPaths(_)
\* Vec::sort
SortPaths(v) ==
    IF Len(v) = 0 THEN <<>>
    ELSE InsertSorted(SortPaths(SubSeq(v, 1, Len(v) - 1)), v[Len(v)])
RECURSIVE Dedup(_)
\* Vec::dedup: of consecutive equal elements only the first is kept
Dedup(v) ==
    IF Len(v) <= 1 THEN v
    ELSE IF v[1] = v[2] THEN Dedup(Tail(v))
    ELSE <<v[1]>> \o Dedup(Tail(v))

\* a faulty variant: the collected paths are sorted but not deduplicated
SortOnly(v) == SortPaths(v)

\* lines 63-64: out.sort(); out.dedup()
SortDedup(v) == Dedup(SortPaths(v))

\* ---- the directory tree the walker runs on
n_r == <<"r">>
n_s == <<"s">>
n_u == <<"u">>
n_k == <<"k">>
n_m == <<"m">>
n_l == <<"l">>
n_q == <<"q">>
n_a_desktop == <<"a", ".", "d", "e", "s", "k", "t", "o", "p">>
n_c_desktop == <<"c", ".", "d", "e", "s", "k", "t", "o", "p">>
n_d_desktop == <<"d", ".", "d", "e", "s", "k", "t", "o", "p">>
n_dot_desktop == <<".", "d", "e", "s", "k", "t", "o", "p">>
n_b_txt == <<"b", ".", "t", "x", "t">>

\* a directory entry: its name and what DirEntry::file_type says of it
\* ("err" when file_type fails); file_type does not follow symbolic links
Entry(name, ft) == [name |-> name, ft |-> ft]

\* the readable directories and their entries:
\*   /r    a.desktop  b.txt  .desktop  d.desktop -> a.desktop  s/  u/ (unreadable)
\*   /r/s  c.desktop  q (file_type fails)  l -> /r/s
\* /k is a symbolic link to /r/s, /m does not exist
Listing ==
    (<<n_r>> :> { Entry(n_a_desktop, "file"), Entry(n_b_txt, "file"),
                  Entry(n_dot_desktop, "file"), Entry(n_d_desktop, "symlink"),
                  Entry(n_s, "dir"), Entry(n_u, "dir") })
    @@ (<<n_r, n_s>> :> { Entry(n_c_desktop, "file"), Entry(n_q, "err"),
                          Entry(n_l, "symlink") })
\* the symbolic links and their targets
Symlinks ==
    (<<n_k>> :> <<n_r, n_s>>)
    @@ (<<n_r, n_s, n_l>> :> <<n_r, n_s>>)
    @@ (<<n_r, n_d_desktop>> :> <<n_r, n_a_desktop>>)
\* the directories whose stream can fail before its last entry
FailingStreams == { <<n_r, n_s>> }

RECURSIVE Canonical(_, _)
\* the path with the symbolic links on it followed: done is resolved already
Canonical(done, rest) ==
    LET here == IF done \in DOMAIN Symlinks THEN Symlinks[done] ELSE done
    IN  IF Len(rest) = 0 THEN here
        ELSE Canonical(Append(here, rest[1]), Tail(rest))

\* fs::read_dir follows symbolic links; an error for a path that is no
\* readable directory
ReadDir(dir) ==
    LET real == Canonical(<<>>, dir)
    IN  IF real \in DOMAIN Listing THEN Some(Listing[real]) ELSE None

\* a faulty variant: the type is taken from the target of a symbolic link, as
\* fs::metadata would give it
FileTypeFollowingLinks(ent) ==
    IF ent.ft # "symlink" THEN ent.ft
    ELSE IF ent.name = n_d_desktop THEN "file" ELSE "dir"

\* ent.file_type()
FileType(ent) == ent.ft

\* for root in dirs: the next root starts with a stack holding the root alone
WalkNextRoot ==
    /\ w_pc = "roots"
    /\ w_root < Len(w_dirs)
    /\ w_root' = w_root + 1
    /\ w_stack' = <<w_dirs[w_root + 1]>>
    /\ w_pc' = "stack"
    /\ UNCHANGED <<w_dirs, w_rd, w_out, w_result, w_listed>>
    /\ UNCHANGED walkOthers

\* stack.pop() and fs::read_dir succeeds
WalkReadDirOk ==
    /\ w_pc = "stack"
    /\ Len(w_stack) > 0
    /\ LET dir == w_stack[Len(w_stack)]
       IN  /\ IsSome(ReadDir(dir))
           /\ w_rd' = [dir |-> dir, left |-> ReadDir(dir).val]
           /\ w_listed' = w_listed \cup {dir}
    /\ w_stack' = SubSeq(w_stack, 1, Len(w_stack) - 1)
    /\ w_pc' = "entries"
    /\ UNCHANGED <<w_dirs, w_root, w_out, w_result>>
    /\ UNCHANGED walkOthers

\* stack.pop() and fs::read_dir fails: the directory is skipped
WalkReadDirErr ==
    /\ w_pc = "stack"
    /\ Len(w_stack) > 0
    /\ ~IsSome(ReadDir(w_stack[Len(w_stack)]))
    /\ w_stack' = SubSeq(w_stack, 1, Len(w_stack) - 1)
    /\ UNCHANGED <<w_dirs, w_root, w_rd, w_out, w_result, w_pc, w_listed>>
    /\ UNCHANGED walkOthers

\* the stack is empty: the walk of this root is over
WalkRootDone ==
    /\ w_pc = "stack"
    /\ Len(w_stack) = 0
    /\ w_pc' = "roots"
    /\ UNCHANGED <<w_dirs, w_root, w_stack, w_rd, w_out, w_result, w_listed>>
    /\ UNCHANGED walkOthers

\* rd.next_entry() gives an entry (in the order the system chooses)
WalkEntry ==
    /\ w_pc = "entries"
    /\ \E ent \in w_rd.left :
         LET p == Append(w_rd.dir, ent.name)
             ft == FileType(ent)
         IN  /\ w_rd' = [w_rd EXCEPT !.left = @ \ {ent}]
             /\ IF ft = "err" \/ ft = "symlink"
                THEN UNCHANGED <<w_stack, w_out>>
                ELSE IF ft = "dir"
                THEN w_stack' = Append(w_stack, p) /\ UNCHANGED w_out
                ELSE IF ft = "file" /\ Extension(ent.name) = Some(s_desktop)
                THEN w_out' = Append(w_out, p) /\ UNCHANGED w_stack
                ELSE UNCHANGED <<w_stack, w_out>>
    /\ UNCHANGED <<w_dirs, w_root, w_result, w_pc, w_listed>>
    /\ UNCHANGED walkOthers

\* rd.next_entry() gives Ok(None)
WalkEntriesEnd ==
    /\ w_pc = "entries"
    /\ w_rd.left = {}
    /\ w_pc' = "stack"
    /\ UNCHANGED <<w_dirs, w_root, w_stack, w_rd, w_out, w_result, w_listed>>
    /\ UNCHANGED walkOthers

\* rd.next_entry() gives Err: the rest of the directory is given up
WalkEntriesErr ==
    /\ w_pc = "entries"
    /\ w_rd.left # {}
    /\ Canonical(<<>>, w_rd.dir) \in FailingStreams
    /\ w_pc' = "stack"
    /\ UNCHANGED <<w_dirs, w_root, w_stack, w_rd, w_out, w_result, w_listed>>
    /\ UNCHANGED walkOthers

\* all roots walked: sort, dedup, return Ok(out)
WalkReturn ==
    /\ w_pc = "roots"
    /\ w_root = Len(w_dirs)
    /\ w_out' = SortDedup(w_out)
    /\ w_result' = [ok |-> TRUE, files |-> SortDedup(w_out)]
    /\ w_pc' = "done"
    /\ UNCHANGED <<w_dirs, w_root, w_stack, w_rd, w_listed>>
    /\ UNCHANGED walkOthers


(* ------------------------------ scan.rs: the inspector ----------------- *)
\* usize::saturating_mul: the product, which for the CPU counts of the model
\* stays below usize::MAX (2^64 - 1), where it would stop
SaturatingMul(a, b) == a * b
Max(a, b) == IF a >= b THEN a ELSE b
\* lines 75-77: args.jobs.unwrap_or_else(|| num_cpus::get().saturating_mul(4).max(8))
JobsLimit(args, cpus) ==
    IF IsSome(args.jobs) THEN args.jobs.val ELSE Max(SaturatingMul(cpus, 4), 8)

\* ---- the machine the inspections run on
\* the search path of the process
InspPathEnv == <<"/", "a", ":", "/", "b">>
\* the executables: /b/x and the interpreter /b/sh
InspFs ==
    (<<"/", "b", "/", "x">> :> MetaFile(493)) @@ (<<"/", "b", "/", "s", "h">> :> MetaFile(493))
\* the .desktop files: what fs::read_to_string gives for each path
p_ok == <<n_r, n_a_desktop>>
p_skipped == <<n_r, n_s, n_c_desktop>>
p_broken == <<n_r, n_d_desktop>>
p_unreadable == <<n_r, n_u, n_a_desktop>>
ReadOk(lines) == [ok |-> TRUE, lines |-> lines]
ReadErr(e) == [ok |-> FALSE, err |-> e]
Disk ==
    (p_ok :> ReadOk(<< <<"[", "D", "e", "s", "k", "t", "o", "p", " ", "E", "n", "t", "r", "y", "]">>,
       <<"T", "y", "p", "e", "=", "A", "p", "p", "l", "i", "c", "a", "t", "i", "o", "n">>,
       <<"N", "a", "m", "e", "=", "A">>,
       <<"E", "x", "e", "c", "=", "x", " ", "%", "f">> >>))
    @@ (p_skipped :> ReadOk(<< <<"[", "D", "e", "s", "k", "t", "o", "p", " ", "E", "n", "t", "r", "y", "]">>,
       <<"N", "o", "D", "i", "s", "p", "l", "a", "y", "=", "t", "r", "u", "e">>,
       <<"E", "x", "e", "c", "=", "x">> >>))
    @@ (p_broken :> ReadOk(<< <<"[", "D", "e", "s", "k", "t", "o", "p", " ", "E", "n", "t", "r", "y", "]">>,
       <<"T", "y", "p", "e", "=", "A", "p", "p", "l", "i", "c", "a", "t", "i", "o", "n">>,
       <<"E", "x", "e", "c", "=", "n", "o", "p", "e">> >>))
    @@ (p_unreadable :> ReadErr("Permission denied (os error 13)"))
\* fs::read_to_string
ReadToString(path) ==
    IF path \in DOMAIN Disk THEN Disk[path]
    ELSE ReadErr("No such file or directory (os error 2)")

\* a future of the stream: not yet created ("queued"), waiting for a permit
\* ("acquire"), about to read its file ("read"), file read ("check"), Finding
\* returned ("done"); permit: it holds a permit of the semaphore
NewTask == [pc |-> "queued", permit |-> FALSE, content |-> <<>>, slot_at_read |-> "unread"]
\* the futures in the buffer of buffer_unordered
InProgress(tasks) == {i \in DOMAIN tasks : tasks[i].pc \in {"acquire", "read", "check"}}

\* buffer_unordered polls the stream while fewer than jobs futures are buffered:
\* the closure of map makes the future of the next path
InspPull ==
    /\ ~i_returned
    /\ i_next <= Len(i_files)
    /\ Cardinality(InProgress(i_tasks)) < i_jobs
    /\ i_tasks' = [i_tasks EXCEPT ![i_next].pc = "acquire"]
    /\ i_next' = i_next + 1
    /\ UNCHANGED <<i_files, i_args, i_jobs, i_permits, i_out, i_stream_done, i_returned>>
    /\ UNCHANGED inspOthers

\* the same poll finds the stream exhausted
InspStreamEnd ==
    /\ ~i_returned
    /\ ~i_stream_done
    /\ i_next > Len(i_files)
    /\ Cardinality(InProgress(i_tasks)) < i_jobs
    /\ i_stream_done' = TRUE
    /\ UNCHANGED <<i_files, i_args, i_jobs, i_next, i_tasks, i_permits, i_out, i_returned>>
    /\ UNCHANGED inspOthers

\* a faulty variant: the permit is dropped as soon as it is acquired
\* (let _ = sem.acquire() instead of let _permit = sem.acquire())
InspAcquireDropsPermit(i) ==
    /\ i_tasks[i].pc = "acquire"
    /\ i_permits > 0
    /\ i_tasks' = [i_tasks EXCEPT ![i].pc = "read"]
    /\ UNCHANGED <<i_files, i_args, i_jobs, i_next, i_permits, i_out, i_stream_done, i_returned>>
    /\ UNCHANGED inspOthers

\* line 89: sem.acquire().await completes when a permit is available
InspAcquire(i) ==
    /\ i_tasks[i].pc = "acquire"
    /\ i_permits > 0
    /\ i_permits' = i_permits - 1
    /\ i_tasks' = [i_tasks EXCEPT ![i].pc = "read", ![i].permit = TRUE]
    /\ UNCHANGED <<i_files, i_args, i_jobs, i_next, i_out, i_stream_done, i_returned>>
    /\ UNCHANGED inspOthers

\* line 124: fs::read_to_string gives the content
InspReadOk(i) ==
    /\ i_tasks[i].pc = "read"
    /\ ReadToString(i_files[i]).ok
    /\ i_tasks' = [i_tasks EXCEPT ![i].pc = "check",
                                  ![i].content = ReadToString(i_files[i]).lines,
                                  ![i].slot_at_read = IF i_tasks[i].permit THEN "held" ELSE "free"]
    /\ UNCHANGED <<i_files, i_args, i_jobs, i_next, i_permits, i_out, i_stream_done, i_returned>>
    /\ UNCHANGED inspOthers

\* the future of task i ends with Finding f: its permit is dropped, the buffer
\* yields f and collect pushes it
Complete(i, f) ==
    /\ i_out' = Append(i_out, f)
    /\ i_permits' = IF i_tasks[i].permit THEN i_permits + 1 ELSE i_permits
    /\ UNCHANGED <<i_files, i_args, i_jobs, i_next, i_stream_done, i_returned>>
    /\ UNCHANGED inspOthers

\* a faulty variant: the file that cannot be read yields no Finding
InspReadErrNoFinding(i) ==
    /\ i_tasks[i].pc = "read"
    /\ ~ReadToString(i_files[i]).ok
    /\ i_tasks' = [i_tasks EXCEPT ![i].pc = "done", ![i].permit = FALSE]
    /\ i_permits' = IF i_tasks[i].permit THEN i_permits + 1 ELSE i_permits
    /\ UNCHANGED <<i_files, i_args, i_jobs, i_next, i_out, i_stream_done, i_returned>>
    /\ UNCHANGED inspOthers

\* a faulty variant: the error of one file ends the whole scan with what was
\* collected so far
InspReadErrAborts(i) ==
    /\ i_tasks[i].pc = "read"
    /\ ~ReadToString(i_files[i]).ok
    /\ i_tasks' = [i_tasks EXCEPT ![i].pc = "done", ![i].permit = FALSE]
    /\ i_permits' = IF i_tasks[i].permit THEN i_permits + 1 ELSE i_permits
    /\ i_returned' = TRUE
    /\ UNCHANGED <<i_files, i_args, i_jobs, i_next, i_out, i_stream_done>>
    /\ UNCHANGED inspOthers

\* line 124 and lines 92-106: fs::read_to_string fails, inspect_one returns the
\* error and the closure makes a Broken Finding of it
InspReadErr(i) ==
    /\ i_tasks[i].pc = "read"
    /\ ~ReadToString(i_files[i]).ok
    /\ i_tasks' = [i_tasks EXCEPT ![i].pc = "done", ![i].permit = FALSE,
                                  ![i].slot_at_read = IF i_tasks[i].permit THEN "held" ELSE "free"]
    /\ Complete(i, ReadErrorFinding(i_files[i], ReadToString(i_files[i]).err))

\* the command lines the scans are started with
InspArgs(maxJobs) ==
    [include_hidden : BOOLEAN, check_script_args : {FALSE},
     jobs : {None} \cup {Some(n) : n \in 1..maxJobs}]
\* inspect_one is a function of the file and the arguments: its Findings for
\* the files of the disk, computed once
InspectOneResults ==
    {[path |-> p, content |-> Disk[p].lines, args |-> a,
      finding |-> InspectContent(InspFs, p, Disk[p].lines, InspPathEnv, a)] :
        p \in {q \in DOMAIN Disk : Disk[q].ok},
        a \in InspArgs(Max(MaxJobs, MaxLiveJobs))}
\* lines 125-327: the rest of inspect_one, for the content read
InspectOne(path, content, args) ==
    LET known == {r \in InspectOneResults :
                     r.path = path /\ r.content = content /\ r.args = args}
    IN  IF known = {} THEN InspectContent(InspFs, path, content, InspPathEnv, args)
        ELSE (CHOOSE r \in known : TRUE).finding

\* a faulty variant: the path of the Finding is taken from a position shared
\* by the inspections, the number of Findings collected so far
InspFinishByCompletionOrder(i) ==
    /\ i_tasks[i].pc = "check"
    /\ i_tasks' = [i_tasks EXCEPT ![i].pc = "done", ![i].permit = FALSE]
    /\ Complete(i, InspectOne(i_files[Len(i_out) + 1], i_tasks[i].content, i_args))

\* lines 125-327: the rest of inspect_one gives the Finding
InspFinish(i) ==
    /\ i_tasks[i].pc = "check"
    /\ i_tasks' = [i_tasks EXCEPT ![i].pc = "done", ![i].permit = FALSE]
    /\ Complete(i, InspectOne(i_files[i], i_tasks[i].content, i_args))

\* a faulty variant: collect returns as soon as the stream is exhausted
InspReturnEarly ==
    /\ ~i_returned
    /\ i_stream_done
    /\ i_returned' = TRUE
    /\ UNCHANGED <<i_files, i_args, i_jobs, i_next, i_tasks, i_permits, i_out, i_stream_done>>
    /\ UNCHANGED inspOthers

\* the stream is exhausted and the buffer is empty: collect returns the Vec
InspReturn ==
    /\ ~i_returned
    /\ i_stream_done
    /\ InProgress(i_tasks) = {}
    /\ i_returned' = TRUE
    /\ UNCHANGED <<i_files, i_args, i_jobs, i_next, i_tasks, i_permits, i_out, i_stream_done>>
    /\ UNCHANGED inspOthers

(* ------------------------------ scan.rs: the concurrency limit --------- *)
\* lines 75-77: jobs is the argument if given, or else computed from the CPUs
LimitJobs ==
    /\ j_pc = "call"
    /\ j_jobs' = JobsLimit(j_args, j_cpus)
    /\ j_pc' = "semaphore"
    /\ UNCHANGED <<j_cpus, j_args, j_permits, j_width>>
    /\ UNCHANGED limitOthers

\* line 79: Semaphore::new(jobs)
LimitSemaphore ==
    /\ j_pc = "semaphore"
    /\ j_permits' = j_jobs
    /\ j_pc' = "stream"
    /\ UNCHANGED <<j_cpus, j_args, j_jobs, j_width>>
    /\ UNCHANGED limitOthers

\* line 110: buffer_unordered(jobs)
LimitBuffer ==
    /\ j_pc = "stream"
    /\ j_width' = j_jobs
    /\ j_pc' = "done"
    /\ UNCHANGED <<j_cpus, j_args, j_jobs, j_permits>>
    /\ UNCHANGED limitOthers

(* ------------------------------ check.rs: validate_exec, by steps ------ *)
\* lines 168-200 of heuristic_script_missing: the index of the token it takes
\* for the script argument, 0 when it returns before taking one
ScriptArgExamined(resolved_exe, tokens) ==
    IF ToAsciiLowercase(FileNameOrEmpty(resolved_exe)) \notin Interpreters
       \/ Len(tokens) = 0 THEN 0
    ELSE IF SkipOptionTokens(tokens, 2) > Len(tokens) THEN 0
    ELSE SkipOptionTokens(tokens, 2)

\* what validate_exec has called: the function and what it was called on
Call(fn, arg) == [fn |-> fn, arg |-> arg]
Returned(result) ==
    /\ v_result' = Some(result)
    /\ v_pc' = "done"

\* a faulty variant: a field code is resolved like any other token
ValSplitExtractNoFieldCode ==
    /\ v_pc = "call"
    /\ \E split \in {ShlexSplit(v_line)} :
               IF ~IsSome(split)
               THEN /\ Returned(Err([msg |-> "Failed to shell-split Exec"]))
                    /\ UNCHANGED <<v_tokens, v_extracted>>
               ELSE IF ~IsSome(ExtractExecutableFromTokens(split.val))
               THEN /\ Returned(Err([msg |-> "Could not extract executable from Exec"]))
                    /\ v_tokens' = split.val
                    /\ UNCHANGED v_extracted
               ELSE /\ v_tokens' = split.val
                    /\ v_extracted' = ExtractExecutableFromTokens(split.val)
                    /\ v_pc' = "resolve"
                    /\ UNCHANGED v_result
    /\ UNCHANGED <<v_line, v_ctx, v_fs, v_resolved, v_calls>>
    /\ UNCHANGED valOthers

\* lines 49-57: the line is split, the executable token extracted, and a
\* field code ends the validation with Ok(None)
ValSplitExtract ==
    /\ v_pc = "call"
    /\ \E split \in {ShlexSplit(v_line)} :
               IF ~IsSome(split)
               THEN /\ Returned(Err([msg |-> "Failed to shell-split Exec"]))
                    /\ UNCHANGED <<v_tokens, v_extracted>>
               ELSE IF ~IsSome(ExtractExecutableFromTokens(split.val))
               THEN /\ Returned(Err([msg |-> "Could not extract executable from Exec"]))
                    /\ v_tokens' = split.val
                    /\ UNCHANGED v_extracted
               ELSE IF StartsWith(ExtractExecutableFromTokens(split.val).val, "%")
               THEN /\ Returned(Ok(None))
                    /\ v_tokens' = split.val
                    /\ v_extracted' = ExtractExecutableFromTokens(split.val)
               ELSE /\ v_tokens' = split.val
                    /\ v_extracted' = ExtractExecutableFromTokens(split.val)
                    /\ v_pc' = "resolve"
                    /\ UNCHANGED v_result
    /\ UNCHANGED <<v_line, v_ctx, v_fs, v_resolved, v_calls>>
    /\ UNCHANGED valOthers

\* lines 59-63 and 72: the token is resolved; without the heuristic, or with
\* nothing resolved, that is the result
ValResolve ==
    /\ v_pc = "resolve"
    /\ \E resolved \in {ResolveExecutable(v_fs, v_extracted.val,
                                            v_ctx.path_env, v_ctx.path_key)} :
               /\ v_resolved' = resolved
               /\ IF v_ctx.check_script_args /\ IsSome(resolved)
                  THEN v_pc' = "heuristic" /\ UNCHANGED v_result
                  ELSE Returned(Ok(resolved))
    /\ v_calls' = Append(v_calls, Call("resolve_executable", v_extracted.val))
    /\ UNCHANGED <<v_line, v_ctx, v_fs, v_tokens, v_extracted>>
    /\ UNCHANGED valOthers

\* lines 64-72: the heuristic is run on the resolved executable and all the
\* tokens; a problem it reports is the error returned
ValHeuristic ==
    /\ v_pc = "heuristic"
    /\ \E reason \in {HeuristicScriptMissing(v_fs, v_resolved.val,
                                               v_tokens, v_ctx.path_key)} :
               IF IsSome(reason) THEN Returned(Err(reason.val))
               ELSE Returned(Ok(v_resolved))
    /\ v_calls' = Append(v_calls, Call("heuristic_script_missing",
                                       ScriptArgExamined(v_resolved.val, v_tokens)))
    /\ UNCHANGED <<v_line, v_ctx, v_fs, v_tokens, v_extracted, v_resolved>>
    /\ UNCHANGED valOthers

(* ------------------------------ scan.rs: inspect_one, by steps --------- *)
\* lines 127-134: the fields inspect_one takes from the map
FieldsOf(kv) ==
    [name |-> Get(kv, k_Name), exec |-> Get(kv, k_Exec), try_exec |-> Get(kv, k_TryExec),
     hidden |-> ParseBool(Get(kv, k_Hidden)), no_display |-> ParseBool(Get(kv, k_NoDisplay)),
     typ |-> IF k_Type \in DOMAIN kv THEN Some(Trim(kv[k_Type])) ELSE None,
     dbus_activatable |-> ParseBool(Get(kv, k_DBusActivatable)),
     path_key |-> Get(kv, k_Path)]

\* a faulty variant: NoDisplay is not looked at
HiddenRuleHiddenOnly(f, args) == ~args.include_hidden /\ f.hidden
\* line 136: the entry is hidden and hidden entries are not asked for
HiddenRule(f, args) == ~args.include_hidden /\ (f.hidden \/ f.no_display)

\* a faulty variant: the comparison is the wrong way round
TypeRuleInverted(f) == IsSome(f.typ) /\ f.typ.val = s_Application
\* lines 151-152: Type is present and is not Application
TypeRule(f) == IsSome(f.typ) /\ f.typ.val # s_Application

\* a faulty variant: bus activation counts only when TryExec is absent too
DBusRuleWithoutTryExec(f) ==
    f.dbus_activatable /\ ~IsSome(f.exec) /\ ~IsSome(f.try_exec)
\* a faulty variant: bus activation counts whether Exec is present or not
DBusRuleIgnoresExec(f) == f.dbus_activatable
\* line 169: the entry is bus-activated and has no Exec
DBusRule(f) == f.dbus_activatable /\ ~IsSome(f.exec)

\* none of the three early returns applies: lines 184-188 build the context
\* and resolution starts
ReachesResolution(f, args) == ~HiddenRule(f, args) /\ ~TypeRule(f) /\ ~DBusRule(f)

\* the context of lines 184-188
ContextOf(f, args) == CheckContext(InspPathEnv, f.path_key, args.check_script_args)

\* inspect_one returns the Finding with this status
Finish(status) ==
    /\ d_finding' = Some(Finding(p_ok, FieldsOf(d_kv).name, FieldsOf(d_kv).exec,
                                 FieldsOf(d_kv).try_exec, FieldsOf(d_kv).path_key,
                                 FieldsOf(d_kv).hidden, FieldsOf(d_kv).no_display, status))
    /\ d_pc' = "done"

\* line 125: the content is parsed
DescParse ==
    /\ d_pc = "call"
    /\ d_kv' = ParseDesktopEntrySection(d_content)
    /\ d_pc' = "rules"
    /\ UNCHANGED <<d_content, d_args, d_tx, d_finding, d_calls>>
    /\ UNCHANGED descOthers

\* lines 136-149
DescSkipHidden ==
    /\ d_pc = "rules"
    /\ HiddenRule(FieldsOf(d_kv), d_args)
    /\ Finish(StatusSkipped([msg |-> "Hidden=true or NoDisplay=true (use --include-hidden to scan these)"]))
    /\ UNCHANGED <<d_content, d_args, d_kv, d_tx, d_calls>>
    /\ UNCHANGED descOthers

\* lines 151-166
DescSkipType ==
    /\ d_pc = "rules"
    /\ ~HiddenRule(FieldsOf(d_kv), d_args)
    /\ TypeRule(FieldsOf(d_kv))
    /\ Finish(StatusSkipped([msg |-> "Type (only Type=Application is checked)",
                             value |-> FieldsOf(d_kv).typ.val]))
    /\ UNCHANGED <<d_content, d_args, d_kv, d_tx, d_calls>>
    /\ UNCHANGED descOthers

\* lines 169-182
DescDBusOk ==
    /\ d_pc = "rules"
    /\ ~HiddenRule(FieldsOf(d_kv), d_args)
    /\ ~TypeRule(FieldsOf(d_kv))
    /\ DBusRule(FieldsOf(d_kv))
    /\ Finish(StatusOk(None))
    /\ UNCHANGED <<d_content, d_args, d_kv, d_tx, d_calls>>
    /\ UNCHANGED descOthers

\* a faulty variant: a TryExec that does not resolve is passed over and Exec
\* decides
DescTryExecFallsBack ==
    /\ d_pc = "rules"
    /\ ReachesResolution(FieldsOf(d_kv), d_args)
    /\ IsSome(FieldsOf(d_kv).try_exec)
    /\ \E tx \in {ValidateTryExec(InspFs, FieldsOf(d_kv).try_exec.val,
                                  ContextOf(FieldsOf(d_kv), d_args)).val} :
          /\ d_tx' = tx
          /\ IF IsSome(FieldsOf(d_kv).exec)
             THEN d_pc' = "exec" /\ UNCHANGED d_finding
             ELSE IF IsSome(tx) THEN Finish(StatusOk(Some(tx.val)))
             ELSE Finish(StatusBroken([msg |-> "TryExec does not resolve",
                                       value |-> FieldsOf(d_kv).try_exec.val]))
    /\ d_calls' = Append(d_calls, "validate_tryexec")
    /\ UNCHANGED <<d_content, d_args, d_kv>>
    /\ UNCHANGED descOthers

\* lines 191-193 and 250-271: TryExec is present and is validated first; if it
\* does not resolve the Finding is Broken, if it resolves and there is no Exec
\* the Finding is Ok with its path, otherwise Exec is validated next
DescTryExec ==
    /\ d_pc = "rules"
    /\ ReachesResolution(FieldsOf(d_kv), d_args)
    /\ IsSome(FieldsOf(d_kv).try_exec)
    /\ \E tx \in {ValidateTryExec(InspFs, FieldsOf(d_kv).try_exec.val,
                                  ContextOf(FieldsOf(d_kv), d_args)).val} :
          /\ d_tx' = tx
          /\ IF ~IsSome(tx)
             THEN Finish(StatusBroken([msg |-> "TryExec does not resolve",
                                       value |-> FieldsOf(d_kv).try_exec.val]))
             ELSE IF IsSome(FieldsOf(d_kv).exec)
             THEN d_pc' = "exec" /\ UNCHANGED d_finding
             ELSE Finish(StatusOk(Some(tx.val)))
    /\ d_calls' = Append(d_calls, "validate_tryexec")
    /\ UNCHANGED <<d_content, d_args, d_kv>>
    /\ UNCHANGED descOthers

\* a faulty variant: once TryExec resolved, its path is reported whatever
\* Exec resolves to
DescExecAfterTryExecKeepsTryExec ==
    /\ d_pc = "exec"
    /\ \E r \in {ValidateExec(InspFs, FieldsOf(d_kv).exec.val,
                              ContextOf(FieldsOf(d_kv), d_args))} :
          Finish(IF r.ok /\ IsSome(r.val) THEN StatusOk(Some(d_tx.val))
                 ELSE ExecStatusAfterTryExec(r))
    /\ d_calls' = Append(d_calls, "validate_exec")
    /\ UNCHANGED <<d_content, d_args, d_kv, d_tx>>
    /\ UNCHANGED descOthers

\* lines 195-248: TryExec resolved and Exec is present: Exec is validated
DescExecAfterTryExec ==
    /\ d_pc = "exec"
    /\ \E r \in {ValidateExec(InspFs, FieldsOf(d_kv).exec.val,
                              ContextOf(FieldsOf(d_kv), d_args))} :
          Finish(ExecStatusAfterTryExec(r))
    /\ d_calls' = Append(d_calls, "validate_exec")
    /\ UNCHANGED <<d_content, d_args, d_kv, d_tx>>
    /\ UNCHANGED descOthers

\* a faulty variant: an error of validate_exec is passed on to the caller, and
\* inspect_one returns no Finding
DescExecOnlyPropagatesErr ==
    /\ d_pc = "rules"
    /\ ReachesResolution(FieldsOf(d_kv), d_args)
    /\ ~IsSome(FieldsOf(d_kv).try_exec)
    /\ IsSome(FieldsOf(d_kv).exec)
    /\ \E r \in {ValidateExec(InspFs, FieldsOf(d_kv).exec.val,
                              ContextOf(FieldsOf(d_kv), d_args))} :
          IF r.ok THEN Finish(ExecStatus(r))
          ELSE d_pc' = "done" /\ UNCHANGED d_finding
    /\ d_calls' = Append(d_calls, "validate_exec")
    /\ UNCHANGED <<d_content, d_args, d_kv, d_tx>>
    /\ UNCHANGED descOthers

\* lines 274-312: there is no TryExec and Exec is validated alone
DescExecOnly ==
    /\ d_pc = "rules"
    /\ ReachesResolution(FieldsOf(d_kv), d_args)
    /\ ~IsSome(FieldsOf(d_kv).try_exec)
    /\ IsSome(FieldsOf(d_kv).exec)
    /\ \E r \in {ValidateExec(InspFs, FieldsOf(d_kv).exec.val,
                              ContextOf(FieldsOf(d_kv), d_args))} :
          Finish(ExecStatus(r))
    /\ d_calls' = Append(d_calls, "validate_exec")
    /\ UNCHANGED <<d_content, d_args, d_kv, d_tx>>
    /\ UNCHANGED descOthers

\* lines 313-326: neither TryExec nor Exec
DescNoExec ==
    /\ d_pc = "rules"
    /\ ReachesResolution(FieldsOf(d_kv), d_args)
    /\ ~IsSome(FieldsOf(d_kv).try_exec)
    /\ ~IsSome(FieldsOf(d_kv).exec)
    /\ Finish(StatusBroken([msg |-> "No Exec key found (and not DBusActivatable)"]))
    /\ UNCHANGED <<d_content, d_args, d_kv, d_tx, d_calls>>
    /\ UNCHANGED descOthers

(* ------------------------------ desktop.rs: the parser, by lines ------- *)
\* lines 20-35: the line is one that inserts a key when the loop is in this
\* state
InsertsKey(st, raw) ==
    /\ ~(Len(Trim(raw)) = 0 \/ StartsWith(Trim(raw), "#") \/ StartsWith(Trim(raw), ";"))
    /\ ~(StartsWith(Trim(raw), "[") /\ EndsWith(Trim(raw), "]"))
    /\ st.in_section
    /\ FirstEq(Trim(raw)) # 0

\* lines 19-36: one iteration of the loop
ParseStep ==
    /\ pl_pc = "loop"
    /\ pl_i <= Len(pl_lines)
    /\ \E st \in {ParseLine([map |-> pl_map, in_section |-> pl_in_section], pl_lines[pl_i])} :
          /\ pl_map' = st.map
          /\ pl_in_section' = st.in_section
    /\ pl_used' = IF InsertsKey([map |-> pl_map, in_section |-> pl_in_section], pl_lines[pl_i])
                  THEN pl_used \cup {pl_i} ELSE pl_used
    /\ pl_i' = pl_i + 1
    /\ UNCHANGED <<pl_lines, pl_pc>>
    /\ UNCHANGED parseOthers

\* line 38: the lines are exhausted and the map is returned
ParseReturn ==
    /\ pl_pc = "loop"
    /\ pl_i > Len(pl_lines)
    /\ pl_pc' = "done"
    /\ UNCHANGED <<pl_lines, pl_i, pl_map, pl_in_section, pl_used>>
    /\ UNCHANGED parseOthers

(* ======================================================================= *)
(* Inputs of the pure functions                                            *)
(* ======================================================================= *)
s_empty == <<>>
s_app == <<"a", "p", "p">>
s_dash_i == <<"-", "i">>
s_assign == <<"A", "=", "1">>
s_fieldcode == <<"%", "f">>
s_envx == <<"e", "n", "v", "x">>
ExtractTokens == {s_env, s_app, s_dash_i, s_assign, s_fieldcode, s_envx, s_empty}

RECURSIVE SeqsUpTo(_, _)
\* the sequences over S of length at most n
SeqsUpTo(S, n) ==
    IF n = 0 THEN {<<>>}
    ELSE LET shorter == SeqsUpTo(S, n - 1)
         IN  shorter \cup {Append(s, x) : s \in {t \in shorter : Len(t) = n - 1}, x \in S}

\* resolver inputs: an absolute token, a relative one with '/', a bare one and
\* the empty token
t_abs == <<"/", "b", "/", "x">>
t_rel == <<".", "/", "x">>
t_bare == <<"x">>
ResolveTokens == {t_abs, t_rel, t_bare, s_empty}

d_a == <<"/", "a">>
d_b == <<"/", "b">>
d_a_slash == <<"/", "a", "/">>
PathEnvs ==
    { s_empty,
      d_a,
      d_a \o <<":">> \o d_b,
      d_b \o <<":">> \o d_a,
      <<":">> \o d_b,
      d_b \o <<":", ":">> \o d_a_slash }
PathKeys == {None, Some(d_a), Some(d_a_slash), Some(s_empty)}

\* every path a resolution over these inputs can ask the filesystem about
ResolverPaths ==
    {t \in ResolveTokens : IsAbsolute(t)}
    \cup {PathJoin(k.val, t) : k \in {k \in PathKeys : IsSome(k)},
                               t \in {t \in ResolveTokens : Contains(t, "/")}}
    \cup {PathJoin(d, t) : d \in {d_a, d_b, d_a_slash},
                           t \in {t \in ResolveTokens : ~Contains(t, "/")}}

\* what a path can be: a directory, or a regular file that is executable for
\* nobody (0o644), for the group only (0o650) or for others only (0o641)
PresentMeta == {MetaDir, MetaFile(420), MetaFile(424), MetaFile(417)}

\* the filesystems in which at most MaxPresent of these paths exist
ResolverFilesystems ==
    UNION { [present -> PresentMeta] :
            present \in {S \in SUBSET ResolverPaths : Cardinality(S) <= MaxPresent} }

(* ======================================================================= *)
(* Specifications                                                          *)
(* ======================================================================= *)
WalkIdle ==
    /\ w_dirs = <<>> /\ w_root = 0 /\ w_stack = <<>> /\ w_rd = [dir |-> <<>>, left |-> {}]
    /\ w_out = <<>> /\ w_result = None /\ w_pc = "idle" /\ w_listed = {}
InspIdle ==
    /\ i_files = <<>> /\ i_args = <<>> /\ i_jobs = 0 /\ i_next = 0 /\ i_tasks = <<>>
    /\ i_permits = 0 /\ i_out = <<>> /\ i_stream_done = FALSE /\ i_returned = FALSE
ValIdle ==
    /\ v_line = <<>> /\ v_ctx = <<>> /\ v_fs = <<>> /\ v_pc = "idle" /\ v_tokens = <<>>
    /\ v_extracted = None /\ v_resolved = None /\ v_result = None /\ v_calls = <<>>
DescIdle ==
    /\ d_content = <<>> /\ d_args = <<>> /\ d_pc = "idle" /\ d_kv = <<>>
    /\ d_tx = None /\ d_finding = None /\ d_calls = <<>>
ParseIdle ==
    /\ pl_lines = <<>> /\ pl_i = 0 /\ pl_map = <<>> /\ pl_in_section = FALSE
    /\ pl_pc = "idle" /\ pl_used = {}
LimitIdle ==
    /\ j_cpus = 0 /\ j_args = <<>> /\ j_jobs = 0 /\ j_permits = 0 /\ j_width = 0
    /\ j_pc = "idle"
\* the functions of the later sections are not running
LaterIdle == ValIdle /\ DescIdle /\ ParseIdle /\ LimitIdle
ExtractIdle == e_tokens = <<>> /\ e_result = None /\ e_pc = "idle"
ResolveIdle ==
    /\ r_token = <<>> /\ r_path_env = <<>> /\ r_path_key = None
    /\ r_fs = <<>> /\ r_result = None /\ r_pc = "idle"

\* ---- extract_executable_from_tokens applied to a token list
ExtractInit ==
    /\ e_tokens \in SeqsUpTo(ExtractTokens, MaxTokens)
    /\ e_result = None
    /\ e_pc = "call"
    /\ ResolveIdle /\ WalkIdle /\ InspIdle /\ LaterIdle

ExtractCall ==
    /\ e_pc = "call"
    /\ e_result' = ExtractExecutableFromTokens(e_tokens)
    /\ e_pc' = "done"
    /\ UNCHANGED <<e_tokens, extractOthers>>

ExtractNext == ExtractCall
ExtractSpec == ExtractInit /\ [][ExtractNext]_vars

\* ---- resolve_executable applied to a token, a search path and a working dir
ResolveInit ==
    /\ r_token \in ResolveTokens
    /\ r_path_env \in PathEnvs
    /\ r_path_key \in PathKeys
    /\ r_fs \in ResolverFilesystems
    /\ r_result = None
    /\ r_pc = "call"
    /\ ExtractIdle /\ WalkIdle /\ InspIdle /\ LaterIdle

ResolveCall ==
    /\ r_pc = "call"
    /\ r_result' = ResolveExecutable(r_fs, r_token, r_path_env, r_path_key)
    /\ r_pc' = "done"
    /\ UNCHANGED <<r_token, r_path_env, r_path_key, r_fs, resolveOthers>>

ResolveNext == ResolveCall
ResolveSpec == ResolveInit /\ [][ResolveNext]_vars

\* ---- collect_desktop_files applied to a list of root directories
WalkRoots == { <<n_r>>, <<n_r, n_s>>, <<n_r, n_u>>, <<n_k>>, <<n_m>> }
WalkStart(maxRoots) ==
    /\ w_dirs \in SeqsUpTo(WalkRoots, maxRoots)
    /\ w_root = 0
    /\ w_stack = <<>>
    /\ w_rd = [dir |-> <<>>, left |-> {}]
    /\ w_out = <<>>
    /\ w_result = None
    /\ w_pc = "roots"
    /\ w_listed = {}
    /\ ExtractIdle /\ ResolveIdle /\ InspIdle /\ LaterIdle
WalkInit == WalkStart(MaxRoots)
WalkLiveInit == WalkStart(MaxLiveRoots)

WalkNext ==
    \/ WalkNextRoot \/ WalkReadDirOk \/ WalkReadDirErr \/ WalkRootDone
    \/ WalkEntry \/ WalkEntriesEnd \/ WalkEntriesErr \/ WalkReturn
WalkSpec == WalkInit /\ [][WalkNext]_vars
\* the runtime keeps polling the future, so a step that can be taken is taken
WalkLiveSpec == WalkLiveInit /\ [][WalkNext]_vars /\ WF_vars(WalkNext)

\* ---- inspect_files_concurrently applied to a file list
InspPaths == {p_ok, p_skipped, p_broken, p_unreadable}
\* the number of CPUs num_cpus::get reports
NumCpus == 4
InspStart(maxFiles, maxJobs) ==
    /\ i_files \in SeqsUpTo(InspPaths, maxFiles)
    /\ i_args \in InspArgs(maxJobs)
    /\ i_jobs = JobsLimit(i_args, NumCpus)
    /\ i_next = 1
    /\ i_tasks = [i \in 1..Len(i_files) |-> NewTask]
    /\ i_permits = i_jobs
    /\ i_out = <<>>
    /\ i_stream_done = FALSE
    /\ i_returned = FALSE
    /\ ExtractIdle /\ ResolveIdle /\ WalkIdle /\ LaterIdle
InspInit == InspStart(MaxFiles, MaxJobs)
InspLiveInit == InspStart(MaxLiveFiles, MaxLiveJobs)

\* any buffered future may be the one that makes progress
InspAcquireAny == \E i \in DOMAIN i_tasks : InspAcquire(i)
InspReadOkAny == \E i \in DOMAIN i_tasks : InspReadOk(i)
InspReadErrAny == \E i \in DOMAIN i_tasks : InspReadErr(i)
InspFinishAny == \E i \in DOMAIN i_tasks : InspFinish(i)
InspNext ==
    \/ InspPull \/ InspStreamEnd \/ InspReturn
    \/ InspAcquireAny \/ InspReadOkAny \/ InspReadErrAny \/ InspFinishAny
InspSpec == InspInit /\ [][InspNext]_vars
\* the runtime polls the buffered futures until they complete and file reads
\* complete, so a step that stays possible is taken
InspLiveSpec == InspLiveInit /\ [][InspNext]_vars /\ WF_vars(InspNext)

\* ---- the inspection of a non-empty list under every --jobs the command
\* line accepts, 0 included
InspAnyJobsInit ==
    /\ i_files \in SeqsUpTo(InspPaths, MaxFiles) \ {<<>>}
    /\ i_args \in [include_hidden : BOOLEAN, check_script_args : {FALSE},
                   jobs : {None} \cup {Some(n) : n \in 0..MaxJobs}]
    /\ i_jobs = JobsLimit(i_args, NumCpus)
    /\ i_next = 1
    /\ i_tasks = [i \in 1..Len(i_files) |-> NewTask]
    /\ i_permits = i_jobs
    /\ i_out = <<>>
    /\ i_stream_done = FALSE
    /\ i_returned = FALSE
    /\ ExtractIdle /\ ResolveIdle /\ WalkIdle /\ LaterIdle
InspAnyJobsSpec == InspAnyJobsInit /\ [][InspNext]_vars

\* ---- the start of inspect_files_concurrently on a machine with some CPUs,
\* with --jobs absent or any value from 0 on
LimitInit ==
    /\ j_cpus \in 1..MaxCpus
    /\ j_args \in [include_hidden : {FALSE}, check_script_args : {FALSE},
                   jobs : {None} \cup {Some(n) : n \in 0..MaxJobs}]
    /\ j_jobs = 0 /\ j_permits = 0 /\ j_width = 0
    /\ j_pc = "call"
    /\ ExtractIdle /\ ResolveIdle /\ WalkIdle /\ InspIdle
    /\ ValIdle /\ DescIdle /\ ParseIdle
LimitNext == LimitJobs \/ LimitSemaphore \/ LimitBuffer
LimitSpec == LimitInit /\ [][LimitNext]_vars

\* ---- validate_exec applied to an Exec line, a context and a filesystem
\* the Exec lines: plain commands, field codes, env prefixes, an open quote,
\* interpreters with present, missing and relative script arguments
l_x == <<"x">>
l_x_field == <<"x", " ", "%", "f">>
l_field == <<"%", "f">>
l_env_field == <<"e", "n", "v", " ", "A", "=", "1", " ", "%", "f">>
l_nope == <<"n", "o", "p", "e">>
l_open_quote == <<"\"", "x">>
l_empty == <<>>
l_sh_missing == <<"s", "h", " ", "/", "m">>
l_sh_present == <<"s", "h", " ", "/", "b", "/", "x">>
l_sh_flag_missing == <<"s", "h", " ", "-", "c", " ", "%", "f", " ", "/", "m">>
l_env_sh_missing == <<"e", "n", "v", " ", "A", "=", "1", " ", "s", "h", " ", "/", "m">>
l_env_path_sh == <<"e", "n", "v", " ", "A", "=", "/", "y", " ", "s", "h", " ", "/", "b", "/", "x">>
l_sh_rel == <<"s", "h", " ", "r", "e", "l">>
l_x_missing == <<"x", " ", "/", "m">>
l_abs_sh == <<"/", "b", "/", "s", "h", " ", "/", "m">>
l_sh_only == <<"s", "h">>
l_sh_rel_path == <<"s", "h", " ", "d", "/", "m">>
l_env_only == <<"e", "n", "v", " ", "A", "=", "1", " ", "-", "i">>
l_sh_flags == <<"s", "h", " ", "-", "c", " ", "%", "f">>
ExecLines ==
    {l_x, l_x_field, l_field, l_env_field, l_nope,
     l_open_quote, l_empty, l_sh_missing, l_sh_present, l_sh_flag_missing,
     l_env_sh_missing, l_env_path_sh, l_sh_rel, l_x_missing, l_abs_sh,
     l_sh_only, l_sh_rel_path, l_sh_flags, l_env_only}
\* the script the lines name, and a working directory
s_script == <<"/", "m">>
s_wd == <<"/", "b">>
s_wd_script == <<"/", "b", "/", "d", "/", "m">>
\* the machine of the inspections, the same with the scripts present (as
\* plain files that are not executable), and an empty one
ValFilesystems ==
    {InspFs,
     InspFs @@ (s_script :> MetaFile(420)) @@ (s_wd_script :> MetaFile(420)),
     <<>>}
ValContexts ==
    {CheckContext(InspPathEnv, wd, flag) : wd \in {None, Some(s_wd)}, flag \in BOOLEAN}
ValInit ==
    /\ v_line \in ExecLines
    /\ v_ctx \in ValContexts
    /\ v_fs \in ValFilesystems
    /\ v_pc = "call"
    /\ v_tokens = <<>> /\ v_extracted = None /\ v_resolved = None
    /\ v_result = None /\ v_calls = <<>>
    /\ ExtractIdle /\ ResolveIdle /\ WalkIdle /\ InspIdle /\ DescIdle /\ ParseIdle /\ LimitIdle
ValNext == ValSplitExtract \/ ValResolve \/ ValHeuristic
ValSpec == ValInit /\ [][ValNext]_vars


\* ---- inspect_one applied to the content of a descriptor
v_true == <<"t", "r", "u", "e">>
v_no == <<"n", "o">>
v_one == <<"1">>
v_Link == <<"L", "i", "n", "k">>
v_exec_ok == <<"x", " ", "%", "f">>
v_exec_script == <<"s", "h", " ", "/", "m">>
v_tryexec_ok == <<"/", "b", "/", "s", "h">>
\* the line key=value if the field is given, no line otherwise
FieldLine(key, value) == IF IsSome(value) THEN <<key \o <<"=">> \o value.val>> ELSE <<>>
\* the descriptor with these fields
Descriptor(hidden, no_display, typ, dbus, exec, try_exec) ==
    <<s_section>> \o FieldLine(k_Hidden, hidden) \o FieldLine(k_NoDisplay, no_display)
        \o FieldLine(k_Type, typ) \o FieldLine(k_DBusActivatable, dbus)
        \o FieldLine(k_Exec, exec) \o FieldLine(k_TryExec, try_exec)
\* Exec: absent, resolving, not resolving, with an open quote, an interpreter
\* with a missing script, empty, env with no command, a field code alone;
\* TryExec: absent, resolving, not resolving
ExecFields ==
    {None, Some(v_exec_ok), Some(l_nope), Some(l_open_quote), Some(v_exec_script),
     Some(l_empty), Some(l_env_only), Some(l_field)}
TryExecFields == {None, Some(v_tryexec_ok), Some(l_nope)}
Descriptors ==
    {Descriptor(hidden, no_display, typ, dbus, exec, try_exec) :
        hidden \in {None, Some(v_true), Some(v_no)}, no_display \in {None, Some(v_one)},
        typ \in {None, Some(s_Application), Some(v_Link)}, dbus \in {None, Some(v_true)},
        exec \in ExecFields, try_exec \in TryExecFields}
DescInit ==
    /\ d_content \in Descriptors
    /\ d_args \in [include_hidden : BOOLEAN, check_script_args : BOOLEAN, jobs : {None}]
    /\ d_pc = "call"
    /\ d_kv = <<>> /\ d_tx = None /\ d_finding = None /\ d_calls = <<>>
    /\ ExtractIdle /\ ResolveIdle /\ WalkIdle /\ InspIdle /\ ValIdle /\ ParseIdle /\ LimitIdle
DescNext ==
    \/ DescParse \/ DescSkipHidden \/ DescSkipType \/ DescDBusOk
    \/ DescTryExec \/ DescExecAfterTryExec \/ DescExecOnly \/ DescNoExec
DescSpec == DescInit /\ [][DescNext]_vars


\* ---- parse_desktop_entry_section applied to the lines of a content
g_other == <<"[", "X", "]">>
g_a1 == <<"A", "=", "1">>
g_a2 == <<" ", "A", " ", "=", "2">>
g_b == <<"B", "=", "=">>
g_comment == <<"#", "A", "=", "3">>
ParserLines == {s_section, g_other, g_a1, g_a2, g_b, g_comment}
ParseInit ==
    /\ pl_lines \in SeqsUpTo(ParserLines, MaxLines)
    /\ pl_i = 1
    /\ pl_map = EmptyMap
    /\ pl_in_section = FALSE
    /\ pl_pc = "loop"
    /\ pl_used = {}
    /\ ExtractIdle /\ ResolveIdle /\ WalkIdle /\ InspIdle /\ ValIdle /\ DescIdle /\ LimitIdle
ParseNext == ParseStep \/ ParseReturn
ParseSpec == ParseInit /\ [][ParseNext]_vars

(* ======================================================================= *)
(* Claims                                                                  *)
(* ======================================================================= *)
\* the number of Findings of v whose desktop_file is p
FindingsFor(v, p) == Cardinality({k \in 1..Len(v) : v[k].desktop_file = p})
\* the number of elements of the list that are p
Occurrences(list, p) == Cardinality({k \in 1..Len(list) : list[k] = p})
\* the paths of the list
PathsOf(list) == {list[k] : k \in 1..Len(list)}
\* one Finding per element of the input list, for its path
OneFindingPerElement ==
    /\ Len(i_out) = Len(i_files)
    /\ \A p \in PathsOf(i_files) : FindingsFor(i_out, p) = Occurrences(i_files, p)

\* C1: for every file list and every limit N >= 1 inspect_files_concurrently
\* eventually returns, and what it returns holds exactly one Finding for each
\* element of the list, with that element's path, whatever way its inspection
\* ended.
C1_ReturnsOneFindingPerElement ==
    <>i_returned /\ [](i_returned => OneFindingPerElement)

\* C1 happens: a list of a readable and an unreadable file was inspected with
\* N = 1 and the call returned, the later element's Finding first
C1_Witness ==
    /\ i_returned
    /\ i_jobs = 1
    /\ i_files = <<p_ok, p_unreadable>>
    /\ Len(i_out) = 2
    /\ i_out[1].desktop_file = p_ok /\ i_out[1].status.kind = "ok"
    /\ i_out[2].desktop_file = p_unreadable /\ i_out[2].status.kind = "broken"

\* the futures that hold a permit
Holders == {i \in DOMAIN i_tasks : i_tasks[i].permit}

\* C2: at most N inspections hold a slot and have not yet produced their
\* Finding, the slots held and the slots free add up to N, and every file that
\* was read was read by an inspection holding a slot.
C2_AtMostNHoldASlot ==
    /\ Cardinality(Holders) <= i_jobs
    /\ i_permits >= 0
    /\ i_permits + Cardinality(Holders) = i_jobs
    /\ \A i \in DOMAIN i_tasks :
          /\ i_tasks[i].pc = "check" => i_tasks[i].permit
          /\ i_tasks[i].slot_at_read # "free"
          /\ i_tasks[i].permit => i_tasks[i].pc \in {"read", "check"}

\* C2 happens: with N = 1 one inspection has read its file under the only slot
\* while the next file is still in the stream
C2_Witness ==
    /\ i_jobs = 1 /\ Len(i_files) = 2
    /\ i_tasks[1].pc = "check" /\ i_tasks[1].permit /\ i_tasks[1].slot_at_read = "held"
    /\ i_tasks[2].pc = "queued"
    /\ i_permits = 0

\* C3 as stated: the returned Findings hold exactly one Finding per unique
\* input path.
C3_OneFindingPerUniquePath ==
    i_returned => \A p \in PathsOf(i_files) : FindingsFor(i_out, p) = 1

\* C3 (amended): at any time the Findings collected are those of the
\* inspections that have ended, one each, and at return there is exactly one
\* Finding per element of the input list, hence one per unique path exactly
\* when no path is repeated in the list; a file that cannot be read counts
\* like any other.
C3_OneFindingPerListElement ==
    /\ \A p \in PathsOf(i_files) :
          FindingsFor(i_out, p)
            = Cardinality({i \in DOMAIN i_tasks : i_files[i] = p /\ i_tasks[i].pc = "done"})
    /\ i_returned =>
          /\ \A i \in DOMAIN i_tasks : i_tasks[i].pc = "done"
          /\ \A p \in PathsOf(i_files) : FindingsFor(i_out, p) = Occurrences(i_files, p)
          /\ (\A p \in PathsOf(i_files) : Occurrences(i_files, p) = 1)
                => \A p \in PathsOf(i_files) : FindingsFor(i_out, p) = 1

\* C3 happens: the same unreadable path was given twice and two Findings for
\* it were returned
C3_Witness ==
    /\ i_returned
    /\ i_files = <<p_unreadable, p_unreadable>>
    /\ FindingsFor(i_out, p_unreadable) = 2

\* C4: a file that cannot be read gets a Broken Finding whose reason carries
\* the I/O error, with every optional field absent and hidden and no_display
\* false; the scan goes on: at return every slot is free again and every
\* element of the list, readable or not, has its Finding.
C4_ReadErrorBecomesBrokenFinding ==
    /\ \A i \in DOMAIN i_tasks :
          (i_tasks[i].pc = "done" /\ ~ReadToString(i_files[i]).ok) =>
              \E k \in 1..Len(i_out) :
                  i_out[k] = [desktop_file |-> i_files[i],
                              name |-> None, exec |-> None, try_exec |-> None,
                              path_key |-> None, hidden |-> FALSE, no_display |-> FALSE,
                              status |-> [kind |-> "broken",
                                          reason |-> [msg |-> "Failed to read/parse file",
                                                      cause |-> ReadToString(i_files[i]).err]]]
    /\ \A k \in 1..Len(i_out) :
          ~ReadToString(i_out[k].desktop_file).ok => i_out[k].status.kind = "broken"
    /\ i_returned =>
          /\ i_permits = i_jobs
          /\ \A p \in PathsOf(i_files) : FindingsFor(i_out, p) >= 1
          /\ Len(i_out) = Len(i_files)

\* C4 happens: the unreadable file failed first and the readable file after it
\* still got its Ok Finding
C4_Witness ==
    /\ i_returned
    /\ i_files = <<p_unreadable, p_ok>>
    /\ Len(i_out) = 2
    /\ i_out[1].desktop_file = p_unreadable /\ i_out[1].status.kind = "broken"
    /\ i_out[2].desktop_file = p_ok /\ i_out[2].status.kind = "ok"

\* v[i] < v[i+1] for every neighbouring pair
StrictlyAscending(v) == \A i \in 1..(Len(v) - 1) : PathLess(v[i], v[i + 1])
NoPathTwice(v) == \A i, j \in 1..Len(v) : i # j => v[i] # v[j]

\* C5: for every list of roots (overlapping, nested, repeated, missing or
\* unreadable ones included) collect_desktop_files returns Ok with a strictly
\* ascending sequence in which no path occurs twice, and every root that can
\* be listed has been listed although others could not.
C5_SortedDuplicateFreeNeverErr ==
    (w_pc = "done") =>
        /\ w_result.ok
        /\ StrictlyAscending(w_result.files)
        /\ NoPathTwice(w_result.files)
        /\ \A i \in 1..Len(w_dirs) :
               w_dirs[i] \in DOMAIN Listing => w_dirs[i] \in w_listed

\* C5 happens: nested roots, one of them holding an unreadable directory, were
\* walked and the file both reach is returned once
C5_Witness ==
    /\ w_pc = "done"
    /\ w_dirs = << <<n_r>>, <<n_r, n_s>> >>
    /\ w_result.files = << <<n_r, n_a_desktop>>, <<n_r, n_s, n_c_desktop>> >>

\* the path names a symbolic link (the directories above it resolved)
IsSymlink(p) ==
    /\ Len(p) > 0
    /\ Append(Canonical(<<>>, SubSeq(p, 1, Len(p) - 1)), p[Len(p)]) \in DOMAIN Symlinks
\* a symbolic link is the path itself or lies on the way to it
ThroughSymlink(p) == \E n \in 1..Len(p) : IsSymlink(SubSeq(p, 1, n))

\* C6 as stated: no directory whose entries are listed is reached through a
\* symbolic link, and no collected file is a symbolic link.
C6_NoListedDirThroughSymlink ==
    /\ \A d \in w_listed : ~ThroughSymlink(d)
    /\ \A i \in 1..Len(w_out) : ~IsSymlink(w_out[i])

\* no entry that is a symbolic link is pushed or collected: a listed directory
\* is a root or a non-symlink entry of a listed directory
OnlyRootsFollowLinks ==
    /\ \A d \in w_listed :
          \/ \E i \in 1..Len(w_dirs) : w_dirs[i] = d
          \/ ~IsSymlink(d) /\ SubSeq(d, 1, Len(d) - 1) \in w_listed
    /\ \A i \in 1..Len(w_stack) :
          \/ \E j \in 1..Len(w_dirs) : w_dirs[j] = w_stack[i]
          \/ ~IsSymlink(w_stack[i])
    /\ \A i \in 1..Len(w_out) : ~IsSymlink(w_out[i])

\* C6 (amended): collect_desktop_files never pushes or collects a directory
\* entry that is a symbolic link, so the only directories it lists through a
\* symbolic link are roots given to it; on a tree with a symlink to an ancestor
\* the walk terminates.
C6_SymlinkEntriesSkippedAndTerminates ==
    []OnlyRootsFollowLinks /\ <>(w_pc = "done")

\* C6 happens: the directory holding a link to itself was listed to its end
\* and the walk returned
C6_Witness ==
    /\ w_pc = "done"
    /\ w_dirs = << <<n_r>> >>
    /\ w_rd.dir = <<n_r, n_s>> /\ w_rd.left = {}
    /\ w_result.files = << <<n_r, n_a_desktop>>, <<n_r, n_s, n_c_desktop>> >>

\* the executable-file test as the documentation words it: the path exists, is
\* a regular file, and one of the owner/group/other executable bits is set
ExistsRegularExecutable(fs, p) ==
    /\ p \in DOMAIN fs
    /\ fs[p].ok
    /\ fs[p].is_file
    /\ \E bit \in {64, 8, 1} : (fs[p].mode \div bit) % 2 = 1

\* C7: for an absolute token resolve_executable returns Some(token) iff the
\* path exists, is a regular file and has an executable bit, None otherwise,
\* whatever the search path and the working directory are.
C7_AbsoluteTokenTestedDirectly ==
    (r_pc = "done" /\ IsAbsolute(r_token)) =>
        r_result = IF ExistsRegularExecutable(r_fs, r_token)
                   THEN Some(r_token) ELSE None

\* C7 happens: an absolute token that is executable for the group only was
\* resolved while the search path and the working directory were both set
C7_Witness ==
    /\ r_pc = "done" /\ IsAbsolute(r_token)
    /\ r_token \in DOMAIN r_fs /\ r_fs[r_token] = MetaFile(424)
    /\ r_result = Some(r_token)
    /\ IsSome(r_path_key) /\ Len(r_path_env) > 0

\* C8: for a relative token that contains '/', resolve_executable returns None
\* without a working directory, and with one it returns Some(working directory
\* joined with the token) iff that path is an executable file; the search path
\* is never consulted.
C8_RelativeTokenNeedsWorkingDir ==
    (r_pc = "done" /\ Contains(r_token, "/") /\ ~IsAbsolute(r_token)) =>
        IF ~IsSome(r_path_key) THEN r_result = None
        ELSE LET joined == PathJoin(r_path_key.val, r_token)
             IN  r_result = IF ExistsRegularExecutable(r_fs, joined)
                            THEN Some(joined) ELSE None

\* C8 happens: without a working directory the token stayed unresolved although
\* a search-path directory holds an executable of that relative name
C8_Witness ==
    /\ r_pc = "done" /\ r_token = t_rel /\ ~IsSome(r_path_key)
    /\ r_path_env = d_a
    /\ ExistsRegularExecutable(r_fs, PathJoin(d_a, t_rel))
    /\ r_result = None

\* C9: for a bare token resolve_executable returns the join of the token with
\* the first non-empty entry of the search path whose join is an executable
\* file, and None when no entry qualifies.
C9_BareTokenFirstMatchInPath ==
    (r_pc = "done" /\ ~Contains(r_token, "/")) =>
        LET dirs == PathEntries(r_path_env)
            hits == {i \in 1..Len(dirs) :
                        ExistsRegularExecutable(r_fs, PathJoin(dirs[i], r_token))}
        IN  /\ \A i \in 1..Len(dirs) : Len(dirs[i]) > 0
            /\ IF hits = {} THEN r_result = None
               ELSE \E i \in hits :
                        /\ \A j \in hits : i <= j
                        /\ r_result = Some(PathJoin(dirs[i], r_token))

\* C9 happens: two entries of the search path hold the command and the
\* earlier one was returned
C9_Witness ==
    /\ r_pc = "done" /\ r_token = t_bare
    /\ r_path_env = d_b \o <<":", ":">> \o d_a_slash
    /\ ExistsRegularExecutable(r_fs, PathJoin(d_a_slash, t_bare))
    /\ ExistsRegularExecutable(r_fs, PathJoin(d_b, t_bare))
    /\ r_result = Some(PathJoin(d_b, t_bare))

\* an option flag or a KEY=VALUE assignment in front of env's command
IsEnvFlagOrAssignment(t) ==
    (Len(t) > 0 /\ Head(t) = "-") \/ (\E k \in 1..Len(t) : t[k] = "=")

\* C10: extract_executable_from_tokens returns None for the empty list, the
\* first token when it is not exactly "env", and otherwise the first token
\* after "env" that is neither a flag nor an assignment (None if none is left).
C10_ExtractExecutable ==
    (e_pc = "done") =>
        IF Len(e_tokens) = 0 THEN e_result = None
        ELSE IF e_tokens[1] # <<"e", "n", "v">> THEN e_result = Some(e_tokens[1])
        ELSE LET rest == {k \in 2..Len(e_tokens) : ~IsEnvFlagOrAssignment(e_tokens[k])}
             IN  IF rest = {} THEN e_result = None
                 ELSE \E k \in rest : (\A j \in rest : k <= j)
                                      /\ e_result = Some(e_tokens[k])

\* C10 happens: env, an assignment and a flag were skipped and the command
\* after them was returned
C10_Witness ==
    /\ e_pc = "done"
    /\ e_tokens = <<s_env, s_assign, s_dash_i, s_app>>
    /\ e_result = Some(s_app)

(* ------------------------------ validate_exec -------------------------- *)
\* the functions validate_exec has called, in order
CalledFns == [k \in 1..Len(v_calls) |-> v_calls[k].fn]
\* the line splits and the token extracted from it is a field code
FieldCodeLine(line) ==
    /\ IsSome(ShlexSplit(line))
    /\ IsSome(ExtractExecutableFromTokens(ShlexSplit(line).val))
    /\ StartsWith(ExtractExecutableFromTokens(ShlexSplit(line).val).val, "%")

\* C11: when the token extracted from the Exec line starts with '%',
\* validate_exec returns Ok(None), never Err, and calls neither
\* resolve_executable nor the script heuristic, whether or not the heuristic is
\* enabled and whatever the filesystem holds.
C11_FieldCodeIsOkNoneWithoutResolution ==
    FieldCodeLine(v_line) =>
        /\ v_calls = <<>>
        /\ v_pc \in {"call", "done"}
        /\ v_pc = "done" => v_result = Some(Ok(None))
        /\ ValidateExec(v_fs, v_line, v_ctx) = Ok(None)

\* C11 happens: "env A=1 %f" was validated with the heuristic enabled
C11_Witness ==
    /\ v_pc = "done"
    /\ v_line = l_env_field
    /\ v_ctx.check_script_args
    /\ v_extracted = Some(<<"%", "f">>)
    /\ v_result = Some(Ok(None))
    /\ v_calls = <<>>

\* the index of the token extract_executable_from_tokens returns
ExecutableIndex(tokens) == IF tokens[1] = s_env THEN EnvCommandIndex(tokens) ELSE 1
\* the resolved executable is one of the interpreters
IsInterpreter(resolved_exe) ==
    ToAsciiLowercase(FileNameOrEmpty(resolved_exe)) \in Interpreters
\* the index of the first token after the interpreter token that starts with
\* neither '%' nor '-', 0 when there is none
ArgAfterInterpreter(tokens) ==
    IF SkipOptionTokens(tokens, ExecutableIndex(tokens) + 1) > Len(tokens) THEN 0
    ELSE SkipOptionTokens(tokens, ExecutableIndex(tokens) + 1)
\* validate_exec went past the field-code test of this call
Resolving == v_pc \in {"resolve", "heuristic"} \/ (v_pc = "done" /\ Len(v_calls) > 0)

\* C14: the heuristic is run only when check_script_args is on and the
\* executable token resolved; with the flag off validate_exec returns exactly
\* Ok(result of resolving the executable token); with the flag on, an
\* interpreter followed by an absolute script path that does not exist makes
\* validate_exec return Err naming that path.
C14_HeuristicOnlyWhenEnabled ==
    /\ \A k \in 1..Len(v_calls) :
          v_calls[k].fn = "heuristic_script_missing"
             => v_ctx.check_script_args /\ IsSome(v_resolved)
    /\ (v_pc = "done" /\ Len(v_calls) > 0 /\ ~v_ctx.check_script_args) =>
          v_result = Some(Ok(ResolveExecutable(v_fs, v_extracted.val,
                                               v_ctx.path_env, v_ctx.path_key)))
    /\ (/\ v_pc = "done" /\ Len(v_calls) > 0 /\ v_ctx.check_script_args
        /\ IsSome(v_resolved) /\ IsInterpreter(v_resolved.val)
        /\ ArgAfterInterpreter(v_tokens) # 0
        /\ IsAbsolute(v_tokens[ArgAfterInterpreter(v_tokens)])
        /\ ~Metadata(v_fs, v_tokens[ArgAfterInterpreter(v_tokens)]).ok) =>
          /\ ~v_result.val.ok
          /\ v_result.val.err.path = v_tokens[ArgAfterInterpreter(v_tokens)]

\* C20: whenever the heuristic runs on an interpreter, the token it takes for
\* the script argument is the first token after the interpreter token that
\* starts with neither '%' nor '-' (none if there is no such token); a token
\* before the interpreter is never taken.
C20_ScriptArgumentFollowsInterpreter ==
    \A k \in 1..Len(v_calls) :
        (v_calls[k].fn = "heuristic_script_missing" /\ IsInterpreter(v_resolved.val)) =>
            /\ v_calls[k].arg = ArgAfterInterpreter(v_tokens)
            /\ v_calls[k].arg = 0 \/ v_calls[k].arg > ExecutableIndex(v_tokens)

\* validate_exec returned after running the heuristic, which took a token for
\* the script argument
HeuristicTookArg ==
    /\ v_pc = "done" /\ Len(v_calls) = 2
    /\ v_calls[2].fn = "heuristic_script_missing"
    /\ v_calls[2].arg # 0
\* that token, and the path the heuristic tests for it
ScriptArg == v_tokens[v_calls[2].arg]
Candidate ==
    IF IsAbsolute(ScriptArg) THEN ScriptArg ELSE PathJoin(v_ctx.path_key.val, ScriptArg)
AmbiguousScriptArg == ~IsAbsolute(ScriptArg) /\ ~IsSome(v_ctx.path_key)
\* validate_exec returned the heuristic's problem, naming the interpreter and
\* the candidate path
Reported == ~v_result.val.ok
ReportNamesCandidate ==
    /\ v_result.val.err.interpreter = ToAsciiLowercase(FileNameOrEmpty(v_resolved.val))
    /\ v_result.val.err.path = Candidate

OnlyOptionsAfterFirst(tokens) ==
    \A k \in 2..Len(tokens) : StartsWith(tokens[k], "%") \/ StartsWith(tokens[k], "-")

FindingAlone(path, args) ==
    IF ReadToString(path).ok
    THEN InspectContent(InspFs, path, ReadToString(path).lines, InspPathEnv,
                        [args EXCEPT !.jobs = None])
    ELSE ReadErrorFinding(path, ReadToString(path).err)
\* how often x occurs in the sequence s
CountIn(s, x) == Cardinality({k \in DOMAIN s : s[k] = x})

\* C27: the Finding of a file depends on that file only: every Finding
\* collected is the Finding of inspecting some file of the list alone, and at
\* return the Findings are, as a multiset, the Findings of inspecting each
\* element of the list alone, whatever the interleaving of the inspections, the
\* concurrency limit (1 or more) and the order of the list.
C27_FindingsDependOnFileOnly ==
    \A alone \in {[i \in DOMAIN i_files |-> FindingAlone(i_files[i], i_args)]} :
        /\ \A k \in DOMAIN i_out : CountIn(i_out, i_out[k]) <= CountIn(alone, i_out[k])
        /\ i_returned =>
              /\ Len(i_out) = Len(alone)
              /\ \A i \in DOMAIN alone : CountIn(i_out, alone[i]) = CountIn(alone, alone[i])

\* C27 happens: two different files were inspected together and the second
\* ended first; the Findings returned are those of the two files alone
C27_Witness ==
    /\ i_returned
    /\ Len(i_files) = 2 /\ i_files[1] # i_files[2]
    /\ i_out = <<FindingAlone(i_files[2], i_args), FindingAlone(i_files[1], i_args)>>
    /\ i_out[1] # i_out[2]

(* ------------------------------ the concurrency limit ------------------ *)
\* C24: without --jobs the concurrency limit, the number of permits of the
\* semaphore and the width of the buffer, is the CPU count times 4, for every
\* CPU count; with --jobs it is the value given.
C24_DefaultLimitIsFourPerCpu ==
    j_pc = "done" =>
        /\ j_permits = j_jobs /\ j_width = j_jobs
        /\ j_jobs = IF IsSome(j_args.jobs) THEN j_args.jobs.val ELSE j_cpus * 4

\* C25: for every --jobs the command line accepts, 0 included, and every
\* non-empty file list, inspect_files_concurrently returns: no state is reached
\* in which it has not returned, files are left without a Finding, and no
\* inspection can start, acquire a permit or go on.
C25_NeverStarved ==
    ~(/\ ~i_returned
      /\ Len(i_out) < Len(i_files)
      /\ ~ENABLED InspNext)

(* ------------------------------ inspect_one ---------------------------- *)
\* the fields of the descriptor under inspection, its Finding's status, and
\* what validate_exec gives for its Exec
Fields == FieldsOf(d_kv)
DescStatus == d_finding.val.status
DescDone == d_pc = "done"
ExecResult == ValidateExec(InspFs, Fields.exec.val, ContextOf(Fields, d_args))
TryExecResolved ==
    ResolveExecutable(InspFs, Fields.try_exec.val, InspPathEnv, Fields.path_key)
\* the content without its Hidden= and NoDisplay= lines
WithoutHiddenLines(content) ==
    SelectSeq(content,
              LAMBDA l : FirstEq(l) = 0
                         \/ SubSeq(l, 1, FirstEq(l) - 1) \notin {k_Hidden, k_NoDisplay})

\* C12: with include_hidden off, a descriptor whose Hidden or NoDisplay parses
\* true yields Skipped whatever its other fields are, and nothing is validated;
\* with include_hidden on, the status is the one of the same descriptor
\* without its Hidden and NoDisplay lines, so a hidden Application with a
\* resolvable Exec and no TryExec yields Ok.
C12_HiddenSkippedUnlessIncluded ==
    DescDone =>
        /\ (~d_args.include_hidden /\ (Fields.hidden \/ Fields.no_display)) =>
              /\ DescStatus.kind = "skipped"
              /\ d_calls = <<>>
        /\ d_args.include_hidden =>
              /\ DescStatus = InspectContent(InspFs, p_ok, WithoutHiddenLines(d_content),
                                             InspPathEnv, d_args).status
              /\ (/\ Fields.hidden /\ ~TypeRule(Fields) /\ ~IsSome(Fields.try_exec)
                  /\ Fields.exec = Some(v_exec_ok)) =>
                    DescStatus = StatusOk(Some(<<"/", "b", "/", "x">>))

\* C12 happens: a descriptor with NoDisplay=1, Type=Link and an Exec that does
\* not resolve was inspected with include_hidden off
C12_Witness ==
    /\ DescDone
    /\ ~d_args.include_hidden
    /\ Fields.no_display /\ ~Fields.hidden
    /\ Fields.typ = Some(v_Link)
    /\ Fields.exec = Some(l_nope)
    /\ DescStatus.kind = "skipped"
    /\ d_calls = <<>>

\* C13: for a descriptor that passes the skip rules and whose TryExec
\* resolves: with Exec present, Ok(Some(p)) of validate_exec gives Ok with p,
\* Ok(None) gives Broken with the inconsistency reason, Err gives Broken with
\* the error; with Exec absent the Finding is Ok with the path TryExec
\* resolved to.
C13_ExecCheckedAfterTryExecResolves ==
    (/\ DescDone /\ ReachesResolution(Fields, d_args)
     /\ IsSome(Fields.try_exec) /\ IsSome(TryExecResolved)) =>
        IF IsSome(Fields.exec)
        THEN /\ (ExecResult.ok /\ IsSome(ExecResult.val)) =>
                    DescStatus = StatusOk(Some(ExecResult.val.val))
             /\ (ExecResult.ok /\ ~IsSome(ExecResult.val)) =>
                    DescStatus = StatusBroken(
                        [msg |-> "Exec does not resolve (even though TryExec does)"])
             /\ ~ExecResult.ok =>
                    /\ DescStatus.kind = "broken"
                    /\ DescStatus.reason.cause = ExecResult.err
        ELSE DescStatus = StatusOk(Some(TryExecResolved.val))

\* C13 happens: TryExec=/b/sh and Exec=x %f both resolve, to different paths,
\* and the Finding has the path of Exec
C13_Witness ==
    /\ DescDone
    /\ ReachesResolution(Fields, d_args)
    /\ Fields.try_exec = Some(v_tryexec_ok)
    /\ Fields.exec = Some(v_exec_ok)
    /\ d_tx = Some(<<"/", "b", "/", "s", "h">>)
    /\ DescStatus = StatusOk(Some(<<"/", "b", "/", "x">>))

\* C15: the skip rules come in order and before any validation: a descriptor
\* the hidden rule does not skip and whose Type is present and is not
\* "Application" yields Skipped for its Type, whatever its Exec, TryExec and
\* DBusActivatable are; a descriptor the hidden rule skips is skipped for
\* being hidden also when its Type is foreign; a descriptor without Type is
\* not skipped for its Type and, unless bus-activated without Exec, goes on
\* to resolution.
C15_ForeignTypeSkippedBeforeResolution ==
    DescDone =>
        /\ (~HiddenRule(Fields, d_args) /\ IsSome(Fields.typ)
            /\ Fields.typ.val # s_Application) =>
              /\ DescStatus = StatusSkipped([msg |-> "Type (only Type=Application is checked)",
                                             value |-> Fields.typ.val])
              /\ d_calls = <<>>
        /\ (HiddenRule(Fields, d_args) /\ IsSome(Fields.typ)) =>
              /\ DescStatus.kind = "skipped"
              /\ "value" \notin DOMAIN DescStatus.reason
        /\ (~HiddenRule(Fields, d_args) /\ ~IsSome(Fields.typ)) =>
              /\ DescStatus.kind # "skipped"
              /\ (~DBusRule(Fields) /\ (IsSome(Fields.exec) \/ IsSome(Fields.try_exec)))
                    => Len(d_calls) > 0

\* C15 happens: a bus-activated Type=Link descriptor with a resolving Exec and
\* a resolving TryExec was skipped for its Type
C15_Witness ==
    /\ DescDone
    /\ ~HiddenRule(Fields, d_args)
    /\ Fields.typ = Some(v_Link)
    /\ Fields.dbus_activatable
    /\ Fields.exec = Some(v_exec_ok) /\ Fields.try_exec = Some(v_tryexec_ok)
    /\ DescStatus.kind = "skipped"
    /\ d_calls = <<>>

\* C16: a descriptor that passes the hidden and the Type rule, declares
\* DBusActivatable true and has no Exec yields Ok with no resolved executable
\* and TryExec is not validated, whether it is absent, resolves or does not
\* resolve.
C16_BusActivatedWithoutExecIsOk ==
    (/\ DescDone /\ ~HiddenRule(Fields, d_args) /\ ~TypeRule(Fields)
     /\ Fields.dbus_activatable /\ ~IsSome(Fields.exec)) =>
        /\ DescStatus = StatusOk(None)
        /\ d_calls = <<>>

\* C16 happens: a bus-activated descriptor without Exec whose TryExec does not
\* resolve was found Ok
C16_Witness ==
    /\ DescDone
    /\ ~HiddenRule(Fields, d_args) /\ ~TypeRule(Fields)
    /\ Fields.dbus_activatable /\ ~IsSome(Fields.exec)
    /\ Fields.try_exec = Some(l_nope)
    /\ DescStatus = StatusOk(None)

\* C17: TryExec is validated first, and when it does not resolve the Finding
\* is Broken for TryExec and Exec is never validated, whether Exec is absent,
\* resolves, does not resolve or cannot be split.
C17_TryExecFirstAndDefinitive ==
    /\ (Len(d_calls) > 0 /\ IsSome(Fields.try_exec)) => d_calls[1] = "validate_tryexec"
    /\ (/\ d_pc \in {"exec", "done"} /\ ReachesResolution(Fields, d_args)
        /\ IsSome(Fields.try_exec) /\ ~IsSome(TryExecResolved)) =>
          /\ DescDone
          /\ DescStatus = StatusBroken([msg |-> "TryExec does not resolve",
                                        value |-> Fields.try_exec.val])
          /\ d_calls = <<"validate_tryexec">>

\* C17 happens: TryExec does not resolve while Exec would
C17_Witness ==
    /\ DescDone
    /\ ReachesResolution(Fields, d_args)
    /\ Fields.try_exec = Some(l_nope)
    /\ Fields.exec = Some(v_exec_ok)
    /\ DescStatus.kind = "broken"
    /\ d_calls = <<"validate_tryexec">>

\* C18: for a descriptor that reaches resolution without TryExec: with Exec
\* present, Ok(Some(p)) of validate_exec gives Ok with p, Ok(None) gives Broken
\* ("Exec does not resolve") and Err gives Broken with the error; with Exec
\* absent too the Finding is Broken for declaring no executable.
C18_ExecAloneDecides ==
    (DescDone /\ ReachesResolution(Fields, d_args) /\ ~IsSome(Fields.try_exec)) =>
        IF IsSome(Fields.exec)
        THEN /\ d_calls = <<"validate_exec">>
             /\ (ExecResult.ok /\ IsSome(ExecResult.val)) =>
                    DescStatus = StatusOk(Some(ExecResult.val.val))
             /\ (ExecResult.ok /\ ~IsSome(ExecResult.val)) =>
                    DescStatus = StatusBroken([msg |-> "Exec does not resolve"])
             /\ ~ExecResult.ok =>
                    /\ DescStatus.kind = "broken"
                    /\ DescStatus.reason.cause = ExecResult.err
        ELSE /\ d_calls = <<>>
             /\ DescStatus =
                    StatusBroken([msg |-> "No Exec key found (and not DBusActivatable)"])

\* C18 happens: a descriptor with Exec="x (an open quote) and no TryExec was
\* found Broken with the error of the split
C18_Witness ==
    /\ DescDone
    /\ ReachesResolution(Fields, d_args)
    /\ ~IsSome(Fields.try_exec)
    /\ Fields.exec = Some(l_open_quote)
    /\ DescStatus = StatusBroken([msg |-> "Exec check failed",
                                  cause |-> [msg |-> "Failed to shell-split Exec"]])

\* the Exec line cannot be split into tokens, or no executable token can be
\* extracted from its tokens
Unsplittable(line) == ~IsSome(ShlexSplit(line))
NoExecutableToken(line) ==
    IsSome(ShlexSplit(line)) /\ ~IsSome(ExtractExecutableFromTokens(ShlexSplit(line).val))

\* C23: an Exec line that cannot be split (an open quote) or that holds no
\* executable token (an empty line, env followed by flags and assignments only)
\* makes validate_exec return Err, and inspect_one returns a Broken Finding
\* whose reason carries that error; inspect_one always returns a Finding, never
\* the error, and the Finding is the one the concurrent inspector collects for
\* the file.
C23_ExecErrorBecomesBroken ==
    DescDone =>
        /\ IsSome(d_finding)
        /\ d_finding.val = InspectContent(InspFs, p_ok, d_content, InspPathEnv, d_args)
        /\ ((\E k \in 1..Len(d_calls) : d_calls[k] = "validate_exec")
            /\ (Unsplittable(Fields.exec.val) \/ NoExecutableToken(Fields.exec.val))) =>
              /\ ~ExecResult.ok
              /\ ExecResult.err.msg = IF Unsplittable(Fields.exec.val)
                                      THEN "Failed to shell-split Exec"
                                      ELSE "Could not extract executable from Exec"
              /\ DescStatus = StatusBroken([msg |-> "Exec check failed",
                                            cause |-> ExecResult.err])

\* C23 happens: a descriptor with Exec=env A=1 -i and no TryExec was found
\* Broken because no executable could be extracted
C23_Witness ==
    /\ DescDone
    /\ d_calls = <<"validate_exec">>
    /\ Fields.exec = Some(l_env_only)
    /\ NoExecutableToken(l_env_only)
    /\ DescStatus = StatusBroken([msg |-> "Exec check failed",
                                  cause |-> [msg |-> "Could not extract executable from Exec"]])

\* C26: a Finding of inspect_one is Ok with no resolved executable only when
\* the descriptor declares DBusActivatable true and has no Exec; an Exec whose
\* executable token is a field code or does not resolve never gives Ok; and
\* the path of an Ok Finding is an executable file of the filesystem inspected.
C26_OkWithoutPathOnlyBusActivated ==
    DescDone =>
        /\ DescStatus = StatusOk(None) =>
              Fields.dbus_activatable /\ ~IsSome(Fields.exec)
        /\ (IsSome(Fields.exec)
            /\ (FieldCodeLine(Fields.exec.val) \/ ExecResult = Ok(None))) =>
              DescStatus.kind # "ok"
        /\ (DescStatus.kind = "ok" /\ IsSome(DescStatus.resolved_executable)) =>
              IsExecutableFile(InspFs, DescStatus.resolved_executable.val)

\* C26 happens: a bus-activated descriptor with Exec=%f and no TryExec was
\* inspected: validate_exec gave Ok(None) and the Finding is Broken
C26_Witness ==
    /\ DescDone
    /\ Fields.dbus_activatable
    /\ Fields.exec = Some(l_field)
    /\ ~IsSome(Fields.try_exec)
    /\ d_calls = <<"validate_exec">>
    /\ ExecResult = Ok(None)
    /\ DescStatus = StatusBroken([msg |-> "Exec does not resolve"])

(* ------------------------------ parse_desktop_entry_section ------------ *)
\* the line is a section header
IsHeader(raw) == StartsWith(Trim(raw), "[") /\ EndsWith(Trim(raw), "]")
\* the indices of the [Desktop Entry] headers and of all headers
EntryHeaders(lines) == {k \in 1..Len(lines) : Trim(lines[k]) = s_section}
Headers(lines) == {k \in 1..Len(lines) : IsHeader(lines[k])}
Least(S) == CHOOSE k \in S : \A j \in S : k <= j
\* the indices of the lines between the first [Desktop Entry] header and the
\* next header or the end
FirstSection(lines) ==
    IF EntryHeaders(lines) = {} THEN {}
    ELSE LET h == Least(EntryHeaders(lines))
             later == {k \in Headers(lines) : k > h}
         IN  {k \in 1..Len(lines) : k > h /\ (later = {} \/ k < Least(later))}
\* the lines of the first section
FirstSectionLines(lines) ==
    IF FirstSection(lines) = {} THEN <<>>
    ELSE SubSeq(lines, Least(FirstSection(lines)),
                Least(FirstSection(lines)) + Cardinality(FirstSection(lines)) - 1)

\* C19: only the key=value lines between the first [Desktop Entry] header and
\* the next header or the end of the file contribute a key, the last
\* occurrence of a key winning: the map returned is the map of that section
\* alone, and no line before the header, in another section or after the
\* section has ended (a later repeated [Desktop Entry] header included)
\* inserts a key.
C19_OnlyFirstSectionRetained ==
    /\ pl_used \subseteq FirstSection(pl_lines)
    /\ pl_pc = "done" =>
          pl_map = ParseDesktopEntrySection(<<s_section>> \o FirstSectionLines(pl_lines))

====
